---- MODULE Spec2Model ----
(***************************************************************************)
(* Photography-session booking backend: availability listing               *)
(* (routes/msAvailability.js), booking commit (routes/bookings.js and      *)
(* routes/msBookings.js), the calendar client (services/msGraphService.js) *)
(* and the travel estimator (services/mapsService.js).                     *)
(*                                                                         *)
(* Time.  A date is a day number; a wall-clock time is minutes since       *)
(* midnight; an instant is minutes since day 0, 00:00 UTC.  The server     *)
(* runs tz minutes west of UTC, so the JavaScript Date built from a        *)
(* "dateTtime" string without a zone is the instant wall + tz, and built   *)
(* from a string ending in Z it is the instant wall.                       *)
(***************************************************************************)
EXTENDS Integers, Sequences, FiniteSets, TLC

VARIABLES
  tz,               \* server's offset west of UTC, minutes (process environment)
  now,              \* the clock, an instant
  holidays,         \* photobooking.holidays: dates with an active row
  operatingHours,   \* photobooking.operating_hours: the active rows
  calendar,         \* the calendar events held by the calendar provider
  traffic,          \* what the route provider currently answers
  travelTimeCache,  \* MapsService.travelTimeCache
  bookings,         \* photobooking.bookings rows
  reqs,             \* the booking requests in flight and answered
  writeLog,         \* per booking request, its calendar writes so far, in order
  lastList,         \* the latest availability request and its response
  mapsCalls         \* the direct calls of the travel estimator, in flight and returned

vars == <<tz, now, holidays, operatingHours, calendar, traffic,
          travelTimeCache, bookings, reqs, writeLog, lastList, mapsCalls>>

----------------------------------------------------------------------------
\* Bounds of the model

\* dates a request may name; date 1 is the business's today at the first clock value
MaxDate == 3
Dates == 0 .. MaxDate
\* number of booking requests in one behaviour
MaxReqs == 2
ReqIds == 1 .. MaxReqs
\* number of direct calls of the travel estimator in one behaviour
MaxCalls == 2
CallIds == 1 .. MaxCalls

\* Values standing for "absent"
NoValue == "none"
\* an absent arrival time, an absent number, a malformed number
NoTime == 0 - 1
NoNumber == 0 - 1
NaN == 0 - 2

----------------------------------------------------------------------------
\* Configuration and program constants

\* config.photographers, primary first
photographers == <<"cory", "lindsey">>
PhotographerSet == {photographers[i] : i \in 1 .. Len(photographers)}

DayMinutes == 24 * 60
\* America/New_York as a fixed offset west of UTC (EST)
BusinessOffset == 300
\* isBeforeCutoffTime: the 17 of "hours < 17"
CutoffHour == 17
slotInterval == 30
\* MapsService.cacheDuration, minutes
cacheDuration == 30

BlockingStatus == {"busy", "oof", "tentative"}

----------------------------------------------------------------------------
\* JavaScript Date conversions

\* new Date(`${date}T${time}`): a zone-less date-time string is local time
ParseLocal(wall) == wall + tz
\* new Date(`${date}T${time}.000Z`), new Date(event.start.dateTime + 'Z')
ParseUTC(wall) == wall
\* Date.prototype.toISOString: the UTC wall clock of an instant
ToISOString(instant) == instant
\* the wall clock `${date}T${time}` as one number
Wall(date, minutes) == date * DayMinutes + minutes
\* getHours() * 60 + getMinutes()
LocalMinutes(instant) == (instant - tz) % DayMinutes
\* the local calendar date of an instant
LocalDate(instant) == (instant - tz) \div DayMinutes
\* date.setHours(h, m, 0): same local date, new local time
SetHours(instant, minutes) == Wall(LocalDate(instant), minutes) + tz

getCorrectDayOfWeek(date) == date % 7

\* today.setHours(0,0,0,0) against new Date(`${dateString}T00:00:00`)
isDateInPast(date) == ParseLocal(Wall(date, 0)) < SetHours(now, 0)
\* a same-day test that reads the date string as UTC midnight
isDateTodayUTC(date) == ParseUTC(Wall(date, 0)) = SetHours(now, 0)
isDateToday(date) == ParseLocal(Wall(date, 0)) = SetHours(now, 0)
isDateTomorrow(date) == ParseLocal(Wall(date, 0)) = SetHours(now, 0) + DayMinutes

\* the hour and minute Intl.DateTimeFormat prints for America/New_York
BusinessMinutes == (now - BusinessOffset) % DayMinutes
isBeforeCutoffTime ==
  LET hours == BusinessMinutes \div 60
      minutes == BusinessMinutes % 60
  IN  hours < CutoffHour \/ (hours = CutoffHour /\ minutes = 0)

doTimesOverlap(start1, end1, start2, end2) == start1 < end2 /\ start2 < end1

CeilDiv(a, b) == (a + b - 1) \div b
Abs(x) == IF x < 0 THEN 0 - x ELSE x

----------------------------------------------------------------------------
\* services/mapsService.js: the travel estimator and its cache

\* the answers of the route provider, by its current condition: seconds, or a failure
TrafficStates == {"calm", "slow", "rush", "down"}
\* a destination at the office itself: the provider answers "0s"
ClearSeconds == 0
CalmSeconds == 1200
SlowSeconds == 2400
\* local hour from which the "rush" condition slows the route
RushStartHour == 11
RouteFailure == 0 - 1

\* axios.post(this.baseUrl, ...) with departureTime = arrivalTime
RouteLookup(arrivalTime) ==
  CASE traffic = "calm" -> CalmSeconds
    [] traffic = "slow" -> SlowSeconds
    [] traffic = "down" -> RouteFailure
    [] traffic = "clear" -> ClearSeconds
    [] OTHER -> IF arrivalTime # NoTime /\ LocalMinutes(arrivalTime) \div 60 >= RushStartHour
                THEN SlowSeconds ELSE CalmSeconds

Addresses == {"12 Oak St", "12 oak st "}
\* destinationAddress.toUpperCase().trim()
NormalizeAddress(address) ==
  IF address \in {"12 Oak St", "12 oak st ", "12 OAK ST"} THEN "12 OAK ST"
  ELSE IF address \in {"9 Elm Rd", "9 ELM RD"} THEN "9 ELM RD"
  ELSE address

\* a rounding that keeps the minutes of the arrival time
RoundToHourKeepMinutes(arrivalTime) == arrivalTime

\* roundedTime.setMinutes(0, 0, 0)
RoundToHour(arrivalTime) ==
  IF arrivalTime = NoTime THEN NoTime ELSE arrivalTime - (LocalMinutes(arrivalTime) % 60)

getCacheKey(destinationAddress, arrivalTime) ==
  <<"", NormalizeAddress(destinationAddress), RoundToHour(arrivalTime)>>
\* `buffer_${this.getCacheKey(normalizedAddress, arrivalTime)}`
bufferCacheKey(destinationAddress, arrivalTime) ==
  <<"buffer_", NormalizeAddress(NormalizeAddress(destinationAddress)), RoundToHour(arrivalTime)>>

\* a validity test that still accepts an entry of exactly the cache duration
isCacheValidInclusive(cachedData) == (now - cachedData.timestamp) <= cacheDuration

isCacheValid(cachedData) == (now - cachedData.timestamp) < cacheDuration

CacheHas(cache, key) == \E e \in cache : e.key = key
CacheGet(cache, key) == CHOOSE e \in cache : e.key = key
\* a cache that stores nothing
CacheSetNothing(cache, key, data) == cache

CacheSet(cache, key, data) ==
  {e \in cache : e.key # key} \cup {[key |-> key, timestamp |-> now, data |-> data]}
CacheHit(cache, key) == CacheHas(cache, key) /\ isCacheValid(CacheGet(cache, key))

\* the defaultResult of calculateTravelTime's catch block
defaultResult == [duration |-> 1800, duration_in_traffic |-> 2100]

\* the result built from the provider's answer, or the default of the catch block
RouteResult(arrivalTime) ==
  LET answer == RouteLookup(arrivalTime)
  IN  IF answer = RouteFailure THEN defaultResult
      ELSE [duration |-> answer, duration_in_traffic |-> answer]

\* the value calculateTravelTime returns
calculateTravelTime(cache, destinationAddress, arrivalTime) ==
  LET key == getCacheKey(destinationAddress, arrivalTime)
  IN  IF CacheHit(cache, key) THEN CacheGet(cache, key).data
      ELSE RouteResult(arrivalTime)

\* travelTimeCache after calculateTravelTime
CacheAfterTravelTime(cache, destinationAddress, arrivalTime) ==
  LET key == getCacheKey(destinationAddress, arrivalTime)
  IN  IF CacheHit(cache, key) THEN cache
      ELSE CacheSet(cache, key, calculateTravelTime(cache, destinationAddress, arrivalTime))

\* Math.ceil(Math.ceil(seconds / 60) / 30) * 30
RoundedTravelTime(travelData) ==
  CeilDiv(CeilDiv(travelData.duration_in_traffic, 60), 30) * 30

\* the value calculateTravelTimeBuffer returns
calculateTravelTimeBuffer(cache, destinationAddress, arrivalTime) ==
  LET key == bufferCacheKey(destinationAddress, arrivalTime)
  IN  IF CacheHit(cache, key) THEN CacheGet(cache, key).data
      ELSE RoundedTravelTime(
             calculateTravelTime(cache, NormalizeAddress(destinationAddress), arrivalTime))

\* travelTimeCache after calculateTravelTimeBuffer
CacheAfterBuffer(cache, destinationAddress, arrivalTime) ==
  LET key == bufferCacheKey(destinationAddress, arrivalTime)
  IN  IF CacheHit(cache, key) THEN cache
      ELSE CacheSet(
             CacheAfterTravelTime(cache, NormalizeAddress(destinationAddress), arrivalTime),
             key, calculateTravelTimeBuffer(cache, destinationAddress, arrivalTime))

\* travelTimeCache after a buffer lookup for each arrival time of a sequence
RECURSIVE CacheAfterBuffers(_, _, _)
CacheAfterBuffers(cache, destinationAddress, arrivalTimes) ==
  IF arrivalTimes = <<>> THEN cache
  ELSE CacheAfterBuffers(CacheAfterBuffer(cache, destinationAddress, Head(arrivalTimes)),
                         destinationAddress, Tail(arrivalTimes))

\* getTravelEventDetails: the start and end of a travel event
getTravelEventDetails(cache, propertyAddress, appointmentTime, isTravelTo) ==
  LET travelBuffer == calculateTravelTimeBuffer(cache, propertyAddress, appointmentTime)
  IN  IF isTravelTo
      THEN [startTime |-> appointmentTime - travelBuffer, endTime |-> appointmentTime,
            durationMinutes |-> travelBuffer]
      ELSE [startTime |-> appointmentTime, endTime |-> appointmentTime + travelBuffer,
            durationMinutes |-> travelBuffer]

----------------------------------------------------------------------------
\* services/msGraphService.js: the calendar client

\* calendarView(startDateTime, endDateTime).select('id,subject,start,end,showAs')
getUserAvailability(userEmail, startDateTime, endDateTime) ==
  {[id |-> e.id, subject |-> e.subject, start |-> e.start, end |-> e.end, showAs |-> e.showAs] :
     e \in {x \in calendar : /\ x.owner = userEmail
                            /\ x.start < ToISOString(endDateTime)
                            /\ x.end > ToISOString(startDateTime)}}

\* event.location?.displayName
LocationOf(event) == IF "location" \in DOMAIN event THEN event.location ELSE NoValue

\* a blocking test that forgets tentative and out-of-office events
IsBlockingBusyOnly(event) == event.showAs = "busy"

IsBlocking(event) == event.showAs \in BlockingStatus

----------------------------------------------------------------------------
\* routes/msAvailability.js: duration policy

\* parseInt of a query value: a number, or NaN for an absent or malformed one
ParseInt(value) == IF value >= 0 THEN value ELSE NaN

\* a base duration whose first band takes 3000 square feet in
BaseDurationUpTo3000(squareFootage) ==
  LET sqft == ParseInt(squareFootage)
  IN  IF sqft = NaN THEN 120
      ELSE IF sqft <= 3000 THEN 60
      ELSE IF sqft < 4000 THEN 90
      ELSE 120

BaseDuration(squareFootage) ==
  LET sqft == ParseInt(squareFootage)
  IN  IF sqft = NaN THEN 120
      ELSE IF sqft < 3000 THEN 60
      ELSE IF sqft >= 3000 /\ sqft < 4000 THEN 90
      ELSE 120

PriceAddition(propertyPrice) ==
  LET price == IF propertyPrice = NoNumber THEN 0 ELSE ParseInt(propertyPrice)
  IN  IF price = NaN THEN 0
      ELSE IF price >= 5000000 THEN 60
      ELSE IF price >= 1000000 THEN 30
      ELSE 0

calculateDurationFromSquareFootage(cache, squareFootage, propertyPrice, propertyAddress, bookingDateTime) ==
  BaseDuration(squareFootage) + PriceAddition(propertyPrice)
    + (IF propertyAddress # NoValue
       THEN calculateTravelTimeBuffer(cache, propertyAddress, bookingDateTime) * 2
       ELSE 0)

\* the duration chosen at the head of each availability handler
RequestDuration(cache, q) ==
  IF q.square_footage # NoNumber
  THEN calculateDurationFromSquareFootage(cache, q.square_footage, q.property_price,
                                          q.property_address, NoTime)
  ELSE IF q.service_type # NoValue
  THEN (IF q.service_type = "standard" THEN 120
        ELSE IF q.service_type = "extended" THEN 180
        ELSE 60)
  ELSE 120

\* minutesToTime: "h:mm AM/PM"
minutesToTime(minutes) ==
  LET hours == minutes \div 60
      hours12 == IF hours % 12 = 0 THEN 12 ELSE hours % 12
  IN  [h |-> hours12, m |-> minutes % 60, period |-> IF hours >= 12 THEN "PM" ELSE "AM"]

\* timeToMinutes of "HH:MM": operating hours rows hold minutes already
timeToMinutes(timeString) == timeString

----------------------------------------------------------------------------
\* routes/msAvailability.js: the slot allocator

officeLocation == "825 Parkway St Suite 8"

\* SELECT * FROM operating_hours WHERE day_of_week = $1 AND is_active = true
\* a lookup that forgets "AND is_active = true"
OperatingRowsOfAnyActivity(date) ==
  {r \in operatingHours : r.day_of_week = getCorrectDayOfWeek(date)}

OperatingRows(date) ==
  {r \in operatingHours : r.day_of_week = getCorrectDayOfWeek(date) /\ r.is_active}
\* operatingHours.rows[0]
FirstRow(rows) == CHOOSE r \in rows : \A o \in rows : r.open_time <= o.open_time

\* new Date(`${formattedDate}T23:59:59`): an event of whole minutes starts before
\* 23:59:59 exactly when it starts before 24:00
EndOfDay(date) == ParseLocal(Wall(date, DayMinutes))

\* getPhotographersAvailability(photographers, T00:00:00, T23:59:59)
FetchDay(date) ==
  [email \in PhotographerSet |->
     getUserAvailability(email, ParseLocal(Wall(date, 0)), EndOfDay(date))]

\* a loop that stops one step early: "<" in place of "<=" in its condition
CandidateStartsBeforeClose(first, appointment, closeMinutes) ==
  LET last == closeMinutes - appointment - 1
      n == IF last < first THEN 0 ELSE (last - first) \div slotInterval + 1
  IN  [k \in 1 .. n |-> first + slotInterval * (k - 1)]

\* the slotStart values the for-loop of '/' and '/all-times' visits, in order
CandidateStarts(first, appointment, closeMinutes) ==
  LET last == closeMinutes - appointment
      n == IF last < first THEN 0 ELSE (last - first) \div slotInterval + 1
  IN  [k \in 1 .. n |-> first + slotInterval * (k - 1)]

\* priorEvents[0]: the blocking event that ends latest before the slot starts
PriorEvents(events, slotStartDate) ==
  {e \in events : IsBlocking(e) /\ ParseUTC(e.end) < slotStartDate}
MostRecentEvent(prior) ==
  CHOOSE e \in prior : \A f \in prior : f.end < e.end \/ (f.end = e.end /\ f.start >= e.start)
\* nextEvents[0]: the blocking event that starts earliest after the slot ends
NextEvents(events, slotEndDate) ==
  {e \in events : IsBlocking(e) /\ ParseUTC(e.start) > slotEndDate}
NextEvent(next) ==
  CHOOSE e \in next : \A f \in next : f.start > e.start \/ (f.start = e.start /\ f.end >= e.end)

NeedsTravelCheck(event) ==
  LocationOf(event) # NoValue /\ LocationOf(event) # officeLocation

\* hasSufficientTravelTime before the slot
PriorGapOk(cache, events, address, slotStartDate) ==
  LET prior == PriorEvents(events, slotStartDate)
  IN  IF prior = {} THEN TRUE
      ELSE LET e == MostRecentEvent(prior)
           IN  IF NeedsTravelCheck(e)
               THEN ~(slotStartDate - ParseUTC(e.end)
                        < calculateTravelTimeBuffer(cache, address, slotStartDate))
               ELSE TRUE

\* hasSufficientTravelTime after the slot
NextGapOk(cache, events, address, slotEndDate) ==
  LET next == NextEvents(events, slotEndDate)
  IN  IF next = {} THEN TRUE
      ELSE LET e == NextEvent(next)
           IN  IF NeedsTravelCheck(e)
               THEN ~(ParseUTC(e.start) - slotEndDate
                        < calculateTravelTimeBuffer(cache, address, slotEndDate))
               ELSE TRUE

\* an hours test that forgets the closing time
StartInHours(fullSlotStartMinutes, fullSlotEndMinutes, openMinutes, closeMinutes) ==
  ~(fullSlotStartMinutes < openMinutes)

\* the full-span operating-hours test of the per-photographer loop
FullSpanInHours(fullSlotStartMinutes, fullSlotEndMinutes, openMinutes, closeMinutes) ==
  ~(fullSlotStartMinutes < openMinutes \/ fullSlotEndMinutes > closeMinutes)

\* an overlap test on closed intervals
HasOverlapClosed(date, fullSlotStartMinutes, fullSlotEndMinutes, event) ==
  /\ ParseLocal(Wall(date, fullSlotStartMinutes)) <= ParseUTC(event.end)
  /\ ParseLocal(Wall(date, fullSlotEndMinutes)) >= ParseUTC(event.start)

\* hasOverlap of the full slot with one event
HasOverlap(date, fullSlotStartMinutes, fullSlotEndMinutes, event) ==
  /\ ParseLocal(Wall(date, fullSlotStartMinutes)) < ParseUTC(event.end)
  /\ ParseLocal(Wall(date, fullSlotEndMinutes)) > ParseUTC(event.start)

\* isPhotographerAvailable
IsPhotographerAvailable(date, fullSlotStartMinutes, fullSlotEndMinutes, events) ==
  ~ \E event \in events :
      IsBlocking(event) /\ HasOverlap(date, fullSlotStartMinutes, fullSlotEndMinutes, event)

\* one round of "for (const email of photographers)" in '/' and '/all-times'
PhotographerPasses(cache, q, date, events, slotStart, slotEnd, slotEndDate, travelTimeBuffer, openMinutes, closeMinutes) ==
  LET fullSlotStartMinutes == slotStart - travelTimeBuffer
      fullSlotEndMinutes == slotEnd + travelTimeBuffer
      slotStartDate == ParseLocal(Wall(date, slotStart))
  IN  /\ FullSpanInHours(fullSlotStartMinutes, fullSlotEndMinutes, openMinutes, closeMinutes)
      /\ IsPhotographerAvailable(date, fullSlotStartMinutes, fullSlotEndMinutes, events)
      /\ \/ q.property_address = NoValue
         \/ /\ PriorGapOk(cache, events, q.property_address, slotStartDate)
            /\ NextGapOk(cache, events, q.property_address, slotEndDate)

\* availablePhotographers, in configured order
AvailablePhotographers(pass(_)) ==
  SelectSeq(photographers, pass)

\* is_primary and photographer of an offered slot
IsPrimary(available) == \E i \in 1 .. Len(available) : available[i] = photographers[1]
\* an assignment that takes the last passing photographer
AssignedPhotographerLast(available) == available[Len(available)]

AssignedPhotographer(available) ==
  IF IsPrimary(available) THEN photographers[1] ELSE available[1]

\* the duration recomputed for one candidate's start time
TimeSpecificDuration(cache, q, date, slotStart) ==
  calculateDurationFromSquareFootage(cache, q.square_footage, q.property_price,
                                     q.property_address, ParseLocal(Wall(date, slotStart)))

\* "continue": the candidate is dropped because its recomputed duration passes closing
SkippedByRecalculation(cache, q, date, slotStart, durationMinutes, closeMinutes) ==
  /\ q.square_footage # NoNumber
  /\ q.property_address # NoValue
  /\ Abs(TimeSpecificDuration(cache, q, date, slotStart) - durationMinutes) >= 30
  /\ slotStart + TimeSpecificDuration(cache, q, date, slotStart) > closeMinutes

\* slotEndDate after the recalculation
SlotEndDate(cache, q, date, slotStart, slotEnd, durationMinutes, recalc) ==
  IF /\ recalc
     /\ q.square_footage # NoNumber
     /\ q.property_address # NoValue
     /\ Abs(TimeSpecificDuration(cache, q, date, slotStart) - durationMinutes) >= 30
  THEN ParseLocal(Wall(date, slotStart + TimeSpecificDuration(cache, q, date, slotStart)))
  ELSE ParseLocal(Wall(date, slotEnd))

\* a handler that never asks for the travel buffer
RequestBufferIgnoringAddress(cache, q) == 0

\* travelTimeBuffer of '/' and '/all-times'
RequestBuffer(cache, q) ==
  IF q.property_address # NoValue
  THEN calculateTravelTimeBuffer(cache, q.property_address, NoTime)
  ELSE 0

\* the slots one date contributes; recalc is TRUE for '/', FALSE for '/all-times'
RECURSIVE SlotsFrom(_, _, _, _, _, _, _, _)
SlotsFrom(cache, q, date, fetched, row, starts, k, recalc) ==
  IF k > Len(starts) THEN <<>>
  ELSE
    LET durationMinutes == RequestDuration(cache, q)
        travelTimeBuffer == RequestBuffer(cache, q)
        openMinutes == timeToMinutes(row.open_time)
        closeMinutes == timeToMinutes(row.close_time)
        slotStart == starts[k]
        slotEnd == slotStart + (durationMinutes - travelTimeBuffer * 2)
        slotEndDate == SlotEndDate(cache, q, date, slotStart, slotEnd, durationMinutes, recalc)
        pass(email) == PhotographerPasses(cache, q, date, fetched[email], slotStart, slotEnd,
                                          slotEndDate, travelTimeBuffer, openMinutes, closeMinutes)
        available == AvailablePhotographers(pass)
        rest == SlotsFrom(cache, q, date, fetched, row, starts, k + 1, recalc)
    IN  IF recalc /\ SkippedByRecalculation(cache, q, date, slotStart, durationMinutes, closeMinutes)
        THEN rest
        ELSE IF Len(available) > 0
        THEN <<[date |-> date,
                start_time |-> minutesToTime(slotStart),
                end_time |-> minutesToTime(slotEnd),
                photographer |-> AssignedPhotographer(available),
                is_primary |-> IsPrimary(available)]>> \o rest
        ELSE rest

DateSlots(cache, q, date, fetched, row, recalc) ==
  LET durationMinutes == RequestDuration(cache, q)
      travelTimeBuffer == RequestBuffer(cache, q)
      adjustedOpenMinutes == timeToMinutes(row.open_time) + travelTimeBuffer
      starts == CandidateStarts(adjustedOpenMinutes, durationMinutes - travelTimeBuffer * 2,
                                timeToMinutes(row.close_time))
  IN  SlotsFrom(cache, q, date, fetched, row, starts, 1, recalc)

\* the date-policy tests that open every availability handler
DateRejected(date) ==
  \/ isDateInPast(date)
  \/ isDateToday(date)
  \/ (isDateTomorrow(date) /\ ~isBeforeCutoffTime)

\* a holiday test that looks the date up one day off
HolidayRejectedDayOff(date, dbError) == dbError # "holidays" /\ (date + 1) \in holidays

\* the holiday test; dbError is the table whose query throws during this request
HolidayRejected(date, dbError) == dbError # "holidays" /\ date \in holidays

\* '/dates': hasAvailableSlot of one date (no travel wings, first passing candidate wins)
HasAvailableSlot(cache, q, date, fetched, row) ==
  LET durationMinutes == RequestDuration(cache, q)
      starts == CandidateStarts(timeToMinutes(row.open_time), durationMinutes,
                                timeToMinutes(row.close_time))
  IN  \E k \in 1 .. Len(starts) :
        \E i \in 1 .. Len(photographers) :
          IsPhotographerAvailable(date, starts[k], starts[k] + durationMinutes,
                                  fetched[photographers[i]])

\* getDatesInRange
RECURSIVE getDatesInRange(_, _)
getDatesInRange(startDate, endDate) ==
  IF startDate > endDate THEN <<>>
  ELSE <<startDate>> \o getDatesInRange(startDate + 1, endDate)

\* the dates of a range that reach the calendar fetch
ReachesFetch(date, dbError) ==
  /\ ~DateRejected(date)
  /\ ~HolidayRejected(date, dbError)
  /\ dbError # "hours"
  /\ OperatingRows(date) # {}

\* the arrival times of the buffer lookups one request makes, in order of first use
RECURSIVE GapLookups(_, _, _, _, _, _, _, _)
GapLookups(cache, q, date, fetched, row, starts, k, recalc) ==
  IF k > Len(starts) THEN <<>>
  ELSE
    LET durationMinutes == RequestDuration(cache, q)
        travelTimeBuffer == RequestBuffer(cache, q)
        slotStart == starts[k]
        slotEnd == slotStart + (durationMinutes - travelTimeBuffer * 2)
        slotStartDate == ParseLocal(Wall(date, slotStart))
        slotEndDate == SlotEndDate(cache, q, date, slotStart, slotEnd, durationMinutes, recalc)
        reached(email) ==
          /\ FullSpanInHours(slotStart - travelTimeBuffer, slotEnd + travelTimeBuffer,
                             timeToMinutes(row.open_time), timeToMinutes(row.close_time))
          /\ IsPhotographerAvailable(date, slotStart - travelTimeBuffer,
                                     slotEnd + travelTimeBuffer, fetched[email])
        priorLookup(email) ==
          /\ reached(email)
          /\ PriorEvents(fetched[email], slotStartDate) # {}
          /\ NeedsTravelCheck(MostRecentEvent(PriorEvents(fetched[email], slotStartDate)))
        nextLookup(email) ==
          /\ reached(email)
          /\ PriorGapOk(cache, fetched[email], q.property_address, slotStartDate)
          /\ NextEvents(fetched[email], slotEndDate) # {}
          /\ NeedsTravelCheck(NextEvent(NextEvents(fetched[email], slotEndDate)))
        skipped == recalc /\ SkippedByRecalculation(cache, q, date, slotStart, durationMinutes,
                                                    timeToMinutes(row.close_time))
    IN  (IF recalc /\ q.square_footage # NoNumber THEN <<slotStartDate>> ELSE <<>>)
        \o (IF ~skipped /\ \E i \in 1 .. Len(photographers) : priorLookup(photographers[i])
            THEN <<slotStartDate>> ELSE <<>>)
        \o (IF ~skipped /\ \E i \in 1 .. Len(photographers) : nextLookup(photographers[i])
            THEN <<slotEndDate>> ELSE <<>>)
        \o GapLookups(cache, q, date, fetched, row, starts, k + 1, recalc)

DateLookups(cache, q, date, fetched, row, recalc) ==
  IF q.property_address = NoValue THEN <<>>
  ELSE <<NoTime>> \o
       GapLookups(cache, q, date, fetched, row,
                  CandidateStarts(timeToMinutes(row.open_time) + RequestBuffer(cache, q),
                                  RequestDuration(cache, q) - RequestBuffer(cache, q) * 2,
                                  timeToMinutes(row.close_time)),
                  1, recalc)

\* the lookup calculateDurationFromSquareFootage makes at the head of a handler
HeadLookups(q) ==
  IF q.square_footage # NoNumber /\ q.property_address # NoValue THEN <<NoTime>> ELSE <<>>

CacheAfterLookups(cache, q, arrivalTimes) ==
  IF q.property_address = NoValue THEN cache
  ELSE CacheAfterBuffers(cache, q.property_address, arrivalTimes)

----------------------------------------------------------------------------
\* The availability requests.  A request is answered from one reading of the
\* tables and calendars; graphError holds the photographers whose calendar
\* fetch throws.

Queries ==
  { [square_footage |-> 2500, property_price |-> NoNumber, service_type |-> NoValue,
     property_address |-> NoValue],
    [square_footage |-> 2500, property_price |-> NoNumber, service_type |-> NoValue,
     property_address |-> "12 Oak St"],
    [square_footage |-> 3500, property_price |-> 1000000, service_type |-> NoValue,
     property_address |-> "12 oak st "],
    [square_footage |-> NoNumber, property_price |-> NoNumber, service_type |-> "standard",
     property_address |-> "12 Oak St"],
    [square_footage |-> NoNumber, property_price |-> NoNumber, service_type |-> "other",
     property_address |-> NoValue],
    [square_footage |-> NaN, property_price |-> NaN, service_type |-> NoValue,
     property_address |-> NoValue] }

Failures ==
  { [dbError |-> "none", graphError |-> {}],
    [dbError |-> "holidays", graphError |-> {}],
    [dbError |-> "hours", graphError |-> {}],
    [dbError |-> "none", graphError |-> {photographers[1]}],
    [dbError |-> "none", graphError |-> {photographers[2]}] }

\* getPhotographersAvailability throws: it awaits getUserAvailability for each
\* email in turn and rethrows the first error
getPhotographersAvailabilityThrows(photographerEmails, failing) ==
  \E i \in 1 .. Len(photographerEmails) : photographerEmails[i] \in failing

\* the availability requests answered in one behaviour
MaxLists == 1
\* the longest date range asked for: end_date - start_date
MaxRange == 1

NoList == [route |-> "none", n |-> 0]

\* the answer before the last one, without the one before it
PreviousAnswer ==
  IF lastList.n = 0 THEN NoList
  ELSE [field \in DOMAIN lastList \ {"previous"} |-> lastList[field]]

Answer(route, q, startDate, endDate, f, status, body, fetched) ==
  [route |-> route, query |-> q, start_date |-> startDate, end_date |-> endDate,
   failure |-> f, at |-> now, status |-> status, body |-> body, fetched |-> fetched,
   n |-> lastList.n + 1, previous |-> PreviousAnswer]

NoFetch == [email \in PhotographerSet |-> {}]

StripDate(slots) ==
  [i \in 1 .. Len(slots) |->
     [start_time |-> slots[i].start_time, end_time |-> slots[i].end_time,
      photographer |-> slots[i].photographer, is_primary |-> slots[i].is_primary]]

\* GET /api/availability?date=...
ListSlots(q, date, f) ==
  LET cache == travelTimeCache
      row == FirstRow(OperatingRows(date))
      fetched == FetchDay(date)
      early == DateRejected(date) \/ HolidayRejected(date, f.dbError)
  IN  /\ \/ /\ early
            /\ lastList' = Answer("/", q, date, date, f, 200, <<>>, NoFetch)
            /\ UNCHANGED travelTimeCache
         \/ /\ ~early /\ f.dbError = "hours"
            /\ lastList' = Answer("/", q, date, date, f, 500, <<>>, NoFetch)
            /\ UNCHANGED travelTimeCache
         \/ /\ ~early /\ f.dbError # "hours" /\ OperatingRows(date) = {}
            /\ lastList' = Answer("/", q, date, date, f, 200, <<>>, NoFetch)
            /\ UNCHANGED travelTimeCache
         \/ /\ ReachesFetch(date, f.dbError)
            /\ getPhotographersAvailabilityThrows(photographers, f.graphError)
            /\ lastList' = Answer("/", q, date, date, f, 500, <<>>, NoFetch)
            /\ travelTimeCache' = CacheAfterLookups(cache, q, HeadLookups(q))
         \/ /\ ReachesFetch(date, f.dbError)
            /\ ~getPhotographersAvailabilityThrows(photographers, f.graphError)
            /\ lastList' = Answer("/", q, date, date, f, 200,
                                  StripDate(DateSlots(cache, q, date, fetched, row, TRUE)),
                                  fetched)
            /\ travelTimeCache' =
                 CacheAfterLookups(cache, q,
                   HeadLookups(q) \o DateLookups(cache, q, date, fetched, row, TRUE))
      /\ UNCHANGED <<tz, now, holidays, operatingHours, calendar, traffic,
                     bookings, reqs, writeLog, mapsCalls>>

\* the dates of a sequence that satisfy a test
RECURSIVE FlatSlots(_, _, _, _)
FlatSlots(cache, q, dates, f) ==
  IF dates = <<>> THEN <<>>
  ELSE (IF ReachesFetch(Head(dates), f.dbError)
        THEN DateSlots(cache, q, Head(dates), FetchDay(Head(dates)),
                       FirstRow(OperatingRows(Head(dates))), FALSE)
        ELSE <<>>)
       \o FlatSlots(cache, q, Tail(dates), f)

RECURSIVE RangeLookups(_, _, _, _)
RangeLookups(cache, q, dates, f) ==
  IF dates = <<>> THEN <<>>
  ELSE (IF ReachesFetch(Head(dates), f.dbError)
        THEN DateLookups(cache, q, Head(dates), FetchDay(Head(dates)),
                         FirstRow(OperatingRows(Head(dates))), FALSE)
        ELSE <<>>)
       \o RangeLookups(cache, q, Tail(dates), f)

\* the keys of availableTimesBySlot, in insertion order
RECURSIVE SlotTimes(_, _)
SlotTimes(flat, seen) ==
  IF flat = <<>> THEN <<>>
  ELSE IF Head(flat).start_time \in seen THEN SlotTimes(Tail(flat), seen)
  ELSE <<Head(flat).start_time>> \o SlotTimes(Tail(flat), seen \cup {Head(flat).start_time})

\* Object.entries(availableTimesBySlot).map(([time, dates]) => ({time, dates}))
GroupByTime(flat) ==
  LET times == SlotTimes(flat, {})
      at(t) == LET same(s) == s.start_time = t IN SelectSeq(flat, same)
  IN  [i \in 1 .. Len(times) |->
         [time |-> times[i],
          dates |-> [j \in 1 .. Len(at(times[i])) |->
                       [date |-> at(times[i])[j].date,
                        end_time |-> at(times[i])[j].end_time,
                        photographer |-> at(times[i])[j].photographer,
                        is_primary |-> at(times[i])[j].is_primary]]]]

FetchedOver(dates, f) ==
  [email \in PhotographerSet |->
     UNION {FetchDay(dates[i])[email] :
              i \in {j \in 1 .. Len(dates) : ReachesFetch(dates[j], f.dbError)}}]

\* GET /api/availability/dates?start_date=...&end_date=...
ListDates(q, startDate, endDate, f) ==
  LET cache == travelTimeCache
      dates == getDatesInRange(startDate, endDate)
      reaches(d) == ReachesFetch(d, f.dbError)
      offered(d) == reaches(d) /\ HasAvailableSlot(cache, q, d, FetchDay(d),
                                                   FirstRow(OperatingRows(d)))
  IN  /\ IF /\ getPhotographersAvailabilityThrows(photographers, f.graphError)
            /\ SelectSeq(dates, reaches) # <<>>
         THEN lastList' = Answer("/dates", q, startDate, endDate, f, 500, <<>>, NoFetch)
         ELSE lastList' = Answer("/dates", q, startDate, endDate, f, 200,
                                 SelectSeq(dates, offered), FetchedOver(dates, f))
      /\ travelTimeCache' = CacheAfterLookups(cache, q, HeadLookups(q))
      /\ UNCHANGED <<tz, now, holidays, operatingHours, calendar, traffic,
                     bookings, reqs, writeLog, mapsCalls>>

\* GET /api/availability/all-times?start_date=...&end_date=...
ListAllTimes(q, startDate, endDate, f) ==
  LET cache == travelTimeCache
      dates == getDatesInRange(startDate, endDate)
      reaches(d) == ReachesFetch(d, f.dbError)
  IN  /\ IF /\ getPhotographersAvailabilityThrows(photographers, f.graphError)
            /\ SelectSeq(dates, reaches) # <<>>
         THEN /\ lastList' = Answer("/all-times", q, startDate, endDate, f, 500, <<>>, NoFetch)
              /\ travelTimeCache' = CacheAfterLookups(cache, q, HeadLookups(q))
         ELSE /\ lastList' = Answer("/all-times", q, startDate, endDate, f, 200,
                                    GroupByTime(FlatSlots(cache, q, dates, f)),
                                    FetchedOver(dates, f))
              /\ travelTimeCache' =
                   CacheAfterLookups(cache, q,
                     HeadLookups(q) \o RangeLookups(cache, q, dates, f))
      /\ UNCHANGED <<tz, now, holidays, operatingHours, calendar, traffic,
                     bookings, reqs, writeLog, mapsCalls>>

----------------------------------------------------------------------------
\* Initial states

TzChoices == {0, BusinessOffset}

\* an instant given as the business's date and wall clock
BusinessTime(date, hour, minute) == Wall(date, hour * 60 + minute) + BusinessOffset
\* the business's date of the clock
BusinessDate == (now - BusinessOffset) \div DayMinutes

ClockChoices ==
  {BusinessTime(1, 16, 59), BusinessTime(1, 17, 0), BusinessTime(1, 17, 1),
   BusinessTime(1, 20, 0)}

HolidayChoices == {{}, {2}}

OpenRow(day) ==
  [day_of_week |-> day, open_time |-> 9 * 60, close_time |-> 13 * 60, is_active |-> TRUE]
HoursChoices == {{OpenRow(d) : d \in 0 .. 6}, {OpenRow(d) : d \in (0 .. 6) \ {3}}}

\* an event somebody put on a photographer's calendar; times are server-local wall clock
External(id, owner, date, from, to, showAs) ==
  [id |-> id, owner |-> owner, start |-> Wall(date, from) + tz, end |-> Wall(date, to) + tz,
   showAs |-> showAs, subject |-> "external", location |-> "Site"]

CalendarChoices ==
  { {},
    {External(1, "cory", 2, 10 * 60, 11 * 60, "busy")},
    {External(1, "cory", 2, 10 * 60, 11 * 60, "free")},
    {External(1, "cory", 2, 10 * 60, 11 * 60, "tentative"),
     External(2, "lindsey", 2, 10 * 60 + 30, 12 * 60, "oof")},
    {External(1, "cory", 2, 9 * 60, 13 * 60, "busy"),
     External(2, "lindsey", 3, 11 * 60, 11 * 60 + 30, "busy")} }

IdleReq == [pc |-> "idle"]
IdleCall == [pc |-> "idle"]

InitList ==
  /\ tz \in TzChoices
  /\ now \in ClockChoices
  /\ holidays \in HolidayChoices
  /\ operatingHours \in HoursChoices
  /\ calendar \in CalendarChoices
  /\ traffic \in TrafficStates
  /\ travelTimeCache = {}
  /\ bookings = {}
  /\ reqs = [r \in ReqIds |-> IdleReq]
  /\ writeLog = [r \in ReqIds |-> <<>>]
  /\ lastList = NoList
  /\ mapsCalls = [c \in CallIds |-> IdleCall]

NextList ==
  \/ \E q \in Queries, date \in Dates, f \in Failures :
       lastList.n < MaxLists /\ ListSlots(q, date, f)
  \/ \E q \in Queries, s \in Dates, e \in Dates, f \in Failures :
       lastList.n < MaxLists /\ s <= e /\ e - s <= MaxRange /\ ListDates(q, s, e, f)
  \/ \E q \in Queries, s \in Dates, e \in Dates, f \in Failures :
       lastList.n < MaxLists /\ s <= e /\ e - s <= MaxRange /\ ListAllTimes(q, s, e, f)

\* availability requests over fixed tables, calendars, clock and traffic
SpecList == InitList /\ [][NextList]_vars

\* a row that was switched off
InactiveRow(day) ==
  [day_of_week |-> day, open_time |-> 9 * 60, close_time |-> 13 * 60, is_active |-> FALSE]

\* operating-hours tables: every day open; no row for day 3; only an inactive
\* row for day 3
HoursTables ==
  HoursChoices \cup {{OpenRow(d) : d \in (0 .. 6) \ {3}} \cup {InactiveRow(3)}}

InitHours ==
  /\ tz \in TzChoices
  /\ now = BusinessTime(1, 16, 59)
  /\ holidays = {}
  /\ operatingHours \in HoursTables
  /\ calendar \in CalendarChoices
  /\ traffic = "calm"
  /\ travelTimeCache = {}
  /\ bookings = {}
  /\ reqs = [r \in ReqIds |-> IdleReq]
  /\ writeLog = [r \in ReqIds |-> <<>>]
  /\ lastList = NoList
  /\ mapsCalls = [c \in CallIds |-> IdleCall]

\* availability requests over operating-hours tables with a missing or inactive day
SpecHours == InitHours /\ [][NextList]_vars

\* the arguments calculateDurationFromSquareFootage is called with
SquareFootages == {0, 2999, 3000, 3999, 4000, NaN}
PropertyPrices == {NoNumber, 0, 999999, 1000000, 4999999, 5000000, NaN}
PropertyAddresses == {NoValue, "12 Oak St"}

\* one call of calculateDurationFromSquareFootage without a booking time: the
\* result, the buffer the travel estimator returned to it, and the cache after it
Quote(squareFootage, propertyPrice, propertyAddress) ==
  /\ lastList' =
       [route |-> "quote", n |-> lastList.n + 1,
        square_footage |-> squareFootage, property_price |-> propertyPrice,
        property_address |-> propertyAddress,
        travelBuffer |->
          IF propertyAddress # NoValue
          THEN calculateTravelTimeBuffer(travelTimeCache, propertyAddress, NoTime)
          ELSE 0,
        totalMinutes |->
          calculateDurationFromSquareFootage(travelTimeCache, squareFootage, propertyPrice,
                                             propertyAddress, NoTime)]
  /\ travelTimeCache' =
       IF propertyAddress # NoValue
       THEN CacheAfterBuffer(travelTimeCache, propertyAddress, NoTime)
       ELSE travelTimeCache
  /\ UNCHANGED <<tz, now, holidays, operatingHours, calendar, traffic,
                 bookings, reqs, writeLog, mapsCalls>>

InitQuote ==
  /\ tz \in TzChoices
  /\ now = BusinessTime(1, 9, 0)
  /\ holidays = {}
  /\ operatingHours = {OpenRow(d) : d \in 0 .. 6}
  /\ calendar = {}
  /\ traffic \in TrafficStates
  /\ travelTimeCache = {}
  /\ bookings = {}
  /\ reqs = [r \in ReqIds |-> IdleReq]
  /\ writeLog = [r \in ReqIds |-> <<>>]
  /\ lastList = NoList
  /\ mapsCalls = [c \in CallIds |-> IdleCall]

NextQuote ==
  \E squareFootage \in SquareFootages, propertyPrice \in PropertyPrices,
     propertyAddress \in PropertyAddresses :
    lastList.n < MaxLists /\ Quote(squareFootage, propertyPrice, propertyAddress)

\* duration quotes over the bands of square footage and price
SpecQuote == InitQuote /\ [][NextQuote]_vars

\* a full working day
DayRow(day) ==
  [day_of_week |-> day, open_time |-> 9 * 60, close_time |-> 17 * 60, is_active |-> TRUE]

\* free calendars; a busy hour 12:00-13:00 on every photographer's calendar; the
\* busy hour on the primary photographer's calendar only
DayCalendars ==
  { {},
    {External(1, photographers[1], 2, 12 * 60, 13 * 60, "busy"),
     External(2, photographers[2], 2, 12 * 60, 13 * 60, "busy")},
    {External(1, photographers[1], 2, 12 * 60, 13 * 60, "busy")} }

InitDay ==
  /\ tz \in TzChoices
  /\ now = BusinessTime(1, 9, 0)
  /\ holidays = {}
  /\ operatingHours = {DayRow(d) : d \in 0 .. 6}
  /\ calendar \in DayCalendars
  /\ traffic \in {"calm", "rush"}
  /\ travelTimeCache = {}
  /\ bookings = {}
  /\ reqs = [r \in ReqIds |-> IdleReq]
  /\ writeLog = [r \in ReqIds |-> <<>>]
  /\ lastList = NoList
  /\ mapsCalls = [c \in CallIds |-> IdleCall]

\* availability requests over a 09:00-17:00 day
SpecDay == InitDay /\ [][NextList]_vars

----------------------------------------------------------------------------
\* routes/bookings.js and routes/msBookings.js: booking requests.  A request
\* runs as a process; other requests may run between its steps, which end at
\* the awaits on the calendar provider.

RouteBookings == "/api/bookings"
RouteMsBookings == "/api/ms-bookings"

\* a write order that creates the appointment before the travel to it
WriteOrderAppointmentFirst == <<"appointment", "travelTo", "travelFrom">>

\* the order of the three calendar writes of a booking
WriteOrder == <<"travelTo", "appointment", "travelFrom">>

\* the identifier the calendar provider gives the event of one write
EventId(r, step) == r * 10 + step
NoEvent == 0

NoIds == [kind \in {"travelTo", "appointment", "travelFrom"} |-> NoEvent]

\* `${property_address}, ${property_city || ''}` of every booking request
BookingAddress == "12 Oak St"

\* Math.ceil((duration_in_traffic?.value || duration.value) / 1800) * 30
BookingTravelBuffer(travelData) == CeilDiv(travelData.duration_in_traffic, 1800) * 30

\* the overlap test of POST /api/bookings
BookingOverlap(bookedStart, bookedEnd, eventStart, eventEnd) ==
  \/ (bookedStart >= eventStart /\ bookedStart < eventEnd)
  \/ (bookedEnd > eventStart /\ bookedEnd <= eventEnd)
  \/ (bookedStart <= eventStart /\ bookedEnd >= eventEnd)

\* a conflict loop that does not look at showAs
BookingConflictAnyShowAs(events, booking_date, start_time, end_time) ==
  \E event \in events :
    BookingOverlap(ParseUTC(Wall(booking_date, start_time)),
                   ParseUTC(Wall(booking_date, end_time)),
                   ParseUTC(event.start), ParseUTC(event.end))

\* the conflict loop of POST /api/bookings over the fetched events
BookingConflict(events, booking_date, start_time, end_time) ==
  \E event \in events :
    /\ ~(event.showAs # "busy" /\ event.showAs # "oof" /\ event.showAs # "tentative")
    /\ BookingOverlap(ParseUTC(Wall(booking_date, start_time)),
                      ParseUTC(Wall(booking_date, end_time)),
                      ParseUTC(event.start), ParseUTC(event.end))

\* the overlap test of POST /api/ms-bookings
MsOverlap(eventStart, eventEnd, startDateTime, endDateTime) ==
  \/ (eventStart <= startDateTime /\ eventEnd > startDateTime)
  \/ (eventStart < endDateTime /\ eventEnd >= endDateTime)
  \/ (eventStart >= startDateTime /\ eventEnd <= endDateTime)

\* hasConflict of POST /api/ms-bookings: event times are read without a zone
MsConflict(events, startDateTime, endDateTime) ==
  \E event \in events :
    /\ MsOverlap(ParseLocal(event.start), ParseLocal(event.end), startDateTime, endDateTime)
    /\ (event.showAs = "busy" \/ event.showAs = "oof" \/ event.showAs = "tentative")

\* formatTravelCalendarEvent
formatTravelCalendarEvent(travelData, isTravelTo) ==
  [subject |-> IF isTravelTo THEN "TRAVEL TO" ELSE "TRAVEL FROM",
   start |-> ToISOString(travelData.startTime),
   end |-> ToISOString(travelData.endTime),
   location |-> IF isTravelTo THEN "From Office to property" ELSE "From property to Office",
   showAs |-> "busy"]

\* formatClientCalendarEvent: no showAs is sent
formatClientCalendarEvent(bookingData) ==
  [subject |-> "Session",
   start |-> ToISOString(bookingData.startDateTime),
   end |-> ToISOString(bookingData.endDateTime),
   location |-> BookingAddress]

\* the event one write step sends
EventDetails(cache, req) ==
  CASE WriteOrder[req.step] = "travelTo" ->
         formatTravelCalendarEvent(
           getTravelEventDetails(cache, BookingAddress, req.startDateTime, TRUE), TRUE)
    [] WriteOrder[req.step] = "appointment" -> formatClientCalendarEvent(req)
    [] OTHER ->
         formatTravelCalendarEvent(
           getTravelEventDetails(cache, BookingAddress, req.endDateTime, FALSE), FALSE)

\* travelTimeCache after the travel lookup of one write step
CacheAfterWrite(cache, req) ==
  CASE WriteOrder[req.step] = "travelTo" ->
         CacheAfterBuffer(cache, BookingAddress, req.startDateTime)
    [] WriteOrder[req.step] = "appointment" -> cache
    [] OTHER -> CacheAfterBuffer(cache, BookingAddress, req.endDateTime)

\* the calendar after createCalendarEvent succeeds; the provider shows an event
\* sent without showAs as busy
CreatedEvent(userEmail, eventDetails, id) ==
  [id |-> id, owner |-> userEmail, start |-> eventDetails.start, end |-> eventDetails.end,
   showAs |-> IF "showAs" \in DOMAIN eventDetails THEN eventDetails.showAs ELSE "busy",
   subject |-> eventDetails.subject, location |-> eventDetails.location]

createCalendarEvent(userEmail, eventDetails, id) ==
  calendar \cup {CreatedEvent(userEmail, eventDetails, id)}

\* the request bodies
StartTimes == {9 * 60, 10 * 60}
SessionMinutes == 60
Customers == {"ann", "bob"}
BookingDates == {2}
Inputs ==
  [booking_date : BookingDates, start_time : StartTimes, customer_name : Customers,
   photographer_email : {NoValue, photographers[1]}]
EndTime(in) == in.start_time + SessionMinutes

\* some other request is between its first step and its response
OtherInFlight(r) == \E o \in ReqIds \ {r} : reqs[o].pc \notin {"idle", "done"}

Started(r, route, in) ==
  [pc |-> "write", route |-> route, input |-> in, photographer |-> NoValue,
   startDateTime |-> NoTime, endDateTime |-> NoTime, travelBuffer |-> 0, fetched |-> {},
   k |-> 1, step |-> 1, phase |-> "ready", ids |-> NoIds, status |-> 0, error |-> NoValue,
   concurrent |-> OtherInFlight(r)]

Answered(req, status, error) == [req EXCEPT !.pc = "done", !.status = status, !.error = error]

\* POST /api/bookings up to its conflict check: travel lookup, calendar fetch,
\* operating hours, conflict loop.  graphError says the fetch throws.
BookingCheck(r, in, graphError) ==
  LET cache == travelTimeCache
      selectedPhotographer ==
        IF in.photographer_email # NoValue THEN in.photographer_email ELSE photographers[1]
      travelData ==
        calculateTravelTime(cache, BookingAddress, ParseLocal(Wall(in.booking_date, in.start_time)))
      travelBuffer == BookingTravelBuffer(travelData)
      startDateTime == ParseLocal(Wall(in.booking_date, in.start_time)) - travelBuffer
      endDateTime == ParseLocal(Wall(in.booking_date, EndTime(in))) + travelBuffer
      events == getUserAvailability(selectedPhotographer, startDateTime, endDateTime)
      rows == OperatingRows(in.booking_date)
      openMinutes == timeToMinutes(FirstRow(rows).open_time)
      closeMinutes == timeToMinutes(FirstRow(rows).close_time)
      adjustedStart ==
        IF LocalMinutes(startDateTime) < openMinutes
        THEN SetHours(startDateTime, openMinutes) ELSE startDateTime
      req == [Started(r, RouteBookings, in) EXCEPT
                !.photographer = selectedPhotographer, !.travelBuffer = travelBuffer,
                !.startDateTime = startDateTime, !.endDateTime = endDateTime]
  IN  /\ reqs[r].pc = "idle"
      /\ travelTimeCache' =
           CacheAfterTravelTime(cache, BookingAddress,
                                ParseLocal(Wall(in.booking_date, in.start_time)))
      /\ reqs' = [reqs EXCEPT ![r] =
           IF in.customer_name = NoValue THEN Answered(req, 400, "Missing required fields")
           ELSE IF graphError THEN Answered(req, 500, "Server error")
           ELSE IF rows = {}
           THEN Answered([req EXCEPT !.fetched = events], 400, "Booking is outside of operating hours")
           ELSE IF in.start_time < openMinutes \/ EndTime(in) > closeMinutes
           THEN Answered([req EXCEPT !.fetched = events], 400, "Booking is outside of operating hours")
           ELSE IF BookingConflict(events, in.booking_date, in.start_time, EndTime(in))
           THEN Answered([req EXCEPT !.fetched = events], 409, "This time slot is no longer available")
           ELSE [req EXCEPT !.fetched = events, !.startDateTime = adjustedStart]]
      /\ UNCHANGED <<tz, now, holidays, operatingHours, calendar, traffic, bookings,
                     writeLog, lastList, mapsCalls>>

\* the rows the duplicate check of POST /api/ms-bookings selects
DuplicateRows(in) ==
  {b \in bookings : /\ b.booking_date = in.booking_date
                    /\ b.start_time = in.start_time
                    /\ b.end_time = EndTime(in)
                    /\ b.customer_name = in.customer_name
                    /\ b.created_at > now - 1}

\* POST /api/ms-bookings up to the choice of the photographer
MsBookingBegin(r, in) ==
  LET rows == OperatingRows(in.booking_date)
      req == [Started(r, RouteMsBookings, in) EXCEPT
                !.startDateTime = ParseLocal(Wall(in.booking_date, in.start_time)),
                !.endDateTime = ParseLocal(Wall(in.booking_date, EndTime(in)))]
  IN  /\ reqs[r].pc = "idle"
      /\ reqs' = [reqs EXCEPT ![r] =
           IF in.customer_name = NoValue THEN Answered(req, 400, "Missing required fields")
           ELSE IF DuplicateRows(in) # {} THEN Answered(req, 200, "Booking already exists")
           ELSE IF rows = {}
           THEN Answered(req, 400, "Booking is outside of operating hours")
           ELSE IF \/ in.start_time < FirstRow(rows).open_time
                   \/ EndTime(in) > FirstRow(rows).close_time
           THEN Answered(req, 400, "Booking is outside of operating hours")
           ELSE IF in.booking_date \in holidays
           THEN Answered(req, 400, "Booking is on a holiday")
           ELSE IF in.photographer_email # NoValue
           THEN [req EXCEPT !.photographer = in.photographer_email]
           ELSE [req EXCEPT !.pc = "select"]]
      /\ UNCHANGED <<tz, now, holidays, operatingHours, calendar, traffic, travelTimeCache,
                     bookings, writeLog, lastList, mapsCalls>>

\* one round of "for (const photographer of photographers)" of POST /api/ms-bookings
MsBookingSelect(r, graphError) ==
  LET req == reqs[r]
      photographer == photographers[req.k]
      events == getUserAvailability(photographer,
                                    ParseLocal(Wall(req.input.booking_date, 0)),
                                    EndOfDay(req.input.booking_date))
      hasConflict == MsConflict(events, req.startDateTime, req.endDateTime)
  IN  /\ req.pc = "select"
      /\ reqs' = [reqs EXCEPT ![r] =
           IF ~graphError /\ ~hasConflict
           THEN [req EXCEPT !.pc = "write", !.photographer = photographer, !.fetched = events]
           ELSE IF req.k < Len(photographers) THEN [req EXCEPT !.k = req.k + 1]
           ELSE Answered(req, 409, "No photographers available at this time")]
      /\ UNCHANGED <<tz, now, holidays, operatingHours, calendar, traffic, travelTimeCache,
                     bookings, writeLog, lastList, mapsCalls>>

\* a write step up to its await: the travel lookup and the call of createCalendarEvent
IssueWrite(r) ==
  LET req == reqs[r]
  IN  /\ req.pc = "write" /\ req.phase = "ready"
      /\ reqs' = [reqs EXCEPT ![r] = [req EXCEPT !.phase = "sent"]]
      /\ writeLog' = [writeLog EXCEPT ![r] =
           Append(@, [kind |-> WriteOrder[req.step], phase |-> "issued",
                      event |-> EventDetails(travelTimeCache, req)])]
      /\ travelTimeCache' = CacheAfterWrite(travelTimeCache, req)
      /\ UNCHANGED <<tz, now, holidays, operatingHours, calendar, traffic, bookings, lastList, mapsCalls>>

\* the INSERT of POST /api/ms-bookings
InsertBooking(r, req) ==
  bookings \cup
    {[id |-> r, booking_date |-> req.input.booking_date, start_time |-> req.input.start_time,
      end_time |-> EndTime(req.input), customer_name |-> req.input.customer_name,
      status |-> "confirmed", photographer_email |-> req.photographer,
      ms_calendar_event_id |-> req.ids["appointment"], ms_calendar_travel_events |-> req.ids,
      created_at |-> now]}

\* a response that reports a booking with a missing calendar event as failed
FinishStrict(r, req) ==
  /\ reqs' = [reqs EXCEPT ![r] =
       IF \E kind \in DOMAIN req.ids : req.ids[kind] = NoEvent
       THEN Answered(req, 500, "Failed to create separate calendar events")
       ELSE Answered(req, 201, NoValue)]
  /\ bookings' = IF req.route = RouteMsBookings THEN InsertBooking(r, req) ELSE bookings

\* what follows the three writes, or the catch block of a failed one
Finish(r, req) ==
  /\ reqs' = [reqs EXCEPT ![r] = Answered(req, 201, NoValue)]
  /\ bookings' = IF req.route = RouteMsBookings THEN InsertBooking(r, req) ELSE bookings

\* the await of createCalendarEvent returns, with the event created or with an error
CompleteWrite(r, ok) ==
  LET req == reqs[r]
      kind == WriteOrder[req.step]
      sent == writeLog[r][Len(writeLog[r])].event
      done == [req EXCEPT !.ids[kind] = EventId(r, req.step), !.phase = "ready"]
  IN  /\ req.pc = "write" /\ req.phase = "sent"
      /\ IF ok
         THEN /\ calendar' = createCalendarEvent(req.photographer, sent, EventId(r, req.step))
              /\ writeLog' = [writeLog EXCEPT ![r] =
                   Append(@, [kind |-> kind, phase |-> "completed", event |-> sent])]
              /\ IF req.step < Len(WriteOrder)
                 THEN /\ reqs' = [reqs EXCEPT ![r] = [done EXCEPT !.step = req.step + 1]]
                      /\ UNCHANGED bookings
                 ELSE Finish(r, done)
         ELSE /\ UNCHANGED calendar
              /\ writeLog' = [writeLog EXCEPT ![r] =
                   Append(@, [kind |-> kind, phase |-> "failed", event |-> sent])]
              /\ Finish(r, [req EXCEPT !.phase = "ready"])
      /\ UNCHANGED <<tz, now, holidays, operatingHours, traffic, travelTimeCache, lastList, mapsCalls>>

AllOpen == {OpenRow(d) : d \in 0 .. 6}

Init ==
  /\ tz \in TzChoices
  /\ now = BusinessTime(1, 9, 0)
  /\ holidays \in HolidayChoices
  /\ operatingHours = AllOpen
  /\ calendar \in {{}, {External(1, "cory", 2, 10 * 60, 11 * 60, "busy")}}
  /\ traffic = "calm"
  /\ travelTimeCache = {}
  /\ bookings = {}
  /\ reqs = [r \in ReqIds |-> IdleReq]
  /\ writeLog = [r \in ReqIds |-> <<>>]
  /\ lastList = NoList
  /\ mapsCalls = [c \in CallIds |-> IdleCall]

Next ==
  \/ \E r \in ReqIds, in \in Inputs, graphError \in BOOLEAN : BookingCheck(r, in, graphError)
  \/ \E r \in ReqIds, in \in Inputs : MsBookingBegin(r, in)
  \/ \E r \in ReqIds, graphError \in BOOLEAN : MsBookingSelect(r, graphError)
  \/ \E r \in ReqIds : IssueWrite(r)
  \/ \E r \in ReqIds, ok \in BOOLEAN : CompleteWrite(r, ok)

\* booking requests of both routes, interleaved at their awaits
Spec == Init /\ [][Next]_vars

----------------------------------------------------------------------------
\* routes/msBookings.js: PUT and DELETE of a stored booking

\* the status values a PUT body may carry, NoValue for none
BodyStatuses == {NoValue, "cancelled", "pending"}

\* the bodies of PUT /api/ms-bookings/:id
UpdateBodies ==
  [booking_date : BookingDates, start_time : {10 * 60}, customer_name : {"bob", NoValue},
   status : BodyStatuses]

\* status || 'confirmed'
StatusOrConfirmed(status) == IF status = NoValue THEN "confirmed" ELSE status

\* UPDATE photobooking.bookings SET ... WHERE id = $11
UpdateRow(b, body) ==
  [b EXCEPT !.booking_date = body.booking_date, !.start_time = body.start_time,
            !.end_time = EndTime(body), !.customer_name = body.customer_name,
            !.status = StatusOrConfirmed(body.status)]

\* PUT /api/ms-bookings/:id: validation, SELECT, UPDATE; the calendar is not touched
MsBookingUpdate(id, body) ==
  /\ bookings' =
       IF body.customer_name = NoValue THEN bookings
       ELSE {IF b.id = id THEN UpdateRow(b, body) ELSE b : b \in bookings}
  /\ UNCHANGED <<tz, now, holidays, operatingHours, calendar, traffic, travelTimeCache,
                 reqs, writeLog, lastList, mapsCalls>>

\* DELETE /api/ms-bookings/:id: SELECT, DELETE; the calendar is not touched
MsBookingDelete(id) ==
  /\ bookings' = {b \in bookings : b.id # id}
  /\ UNCHANGED <<tz, now, holidays, operatingHours, calendar, traffic, travelTimeCache,
                 reqs, writeLog, lastList, mapsCalls>>

InitRows ==
  /\ tz = 0
  /\ now = BusinessTime(1, 9, 0)
  /\ holidays = {}
  /\ operatingHours = AllOpen
  /\ calendar = {}
  /\ traffic = "calm"
  /\ travelTimeCache = {}
  /\ bookings = {}
  /\ reqs = [r \in ReqIds |-> IdleReq]
  /\ writeLog = [r \in ReqIds |-> <<>>]
  /\ lastList = NoList
  /\ mapsCalls = [c \in CallIds |-> IdleCall]

NextRows ==
  \/ \E r \in ReqIds, in \in Inputs : MsBookingBegin(r, in)
  \/ \E r \in ReqIds, graphError \in BOOLEAN : MsBookingSelect(r, graphError)
  \/ \E r \in ReqIds : IssueWrite(r)
  \/ \E r \in ReqIds, ok \in BOOLEAN : CompleteWrite(r, ok)
  \/ \E id \in ReqIds, body \in UpdateBodies : MsBookingUpdate(id, body)
  \/ \E id \in ReqIds : MsBookingDelete(id)

\* the stored bookings under create, update and delete requests of /api/ms-bookings
SpecRows == InitRows /\ [][NextRows]_vars

----------------------------------------------------------------------------
\* routes/bookings.js: PUT /api/bookings/:id, and the requests over calendars
\* that hold events of every showAs value

RouteBookingUpdate == "/api/bookings/:id"

\* the bodies of PUT /api/bookings/:id with the event id of the path
UpdateInputs ==
  [booking_date : BookingDates, start_time : StartTimes, customer_name : {"ann"},
   photographer_email : {photographers[1]}, eventId : {1, 2}]

\* the conflict loop of PUT /api/bookings/:id: the event under update is skipped,
\* event times are read without a zone
UpdateConflict(events, eventId, startDateTime, endDateTime) ==
  \E event \in events :
    /\ event.id # eventId
    /\ (event.showAs = "busy" \/ event.showAs = "oof" \/ event.showAs = "tentative")
    /\ startDateTime <= ParseLocal(event.end)
    /\ endDateTime >= ParseLocal(event.start)

\* the calendar after updateCalendarEvent succeeds: subject, start, end and
\* location of the event are replaced
updateCalendarEvent(events, userEmail, eventId, eventDetails) ==
  {IF e.owner = userEmail /\ e.id = eventId
   THEN [e EXCEPT !.subject = eventDetails.subject, !.start = eventDetails.start,
                  !.end = eventDetails.end, !.location = eventDetails.location]
   ELSE e : e \in events}

\* originalEvent.subject.includes('+ Travel (both ways)')
LegacySubject == "Session + Travel (both ways)"
isLegacyEvent(originalEvent) == originalEvent.subject = LegacySubject

\* the calendar calls of the legacy branch, in program order
LegacyOrder == <<"delete", "travelTo", "appointment", "travelFrom">>

\* the calendar calls a PUT may find failing; "none" for a PUT whose calls succeed
UpdateFailures == {"none", "get", "delete", "travelTo", "appointment", "travelFrom", "update"}

\* the position in LegacyOrder of the call that throws, past the end if none does
FailingStep(fail) ==
  IF \E k \in DOMAIN LegacyOrder : LegacyOrder[k] = fail
  THEN CHOOSE k \in DOMAIN LegacyOrder : LegacyOrder[k] = fail
  ELSE Len(LegacyOrder) + 1

\* the log of the calendar calls made up to and including the one that throws
LegacyLog(failing) ==
  [k \in 1 .. (IF failing > Len(LegacyOrder) THEN Len(LegacyOrder) ELSE failing) |->
     [kind |-> LegacyOrder[k], phase |-> IF k = failing THEN "failed" ELSE "completed"]]

\* PUT /api/bookings/:id.  graphError says the calendar fetch of the conflict
\* check throws, fail names the later calendar call that throws.  The calendar
\* calls of one request are taken in one step and logged in their order.
BookingUpdate(r, in, graphError, fail) ==
  LET cache == travelTimeCache
      travelData ==
        calculateTravelTime(cache, BookingAddress, ParseLocal(Wall(in.booking_date, in.start_time)))
      travelBuffer == BookingTravelBuffer(travelData)
      startDateTime == ParseLocal(Wall(in.booking_date, in.start_time)) - travelBuffer
      endDateTime == ParseLocal(Wall(in.booking_date, EndTime(in))) + travelBuffer
      events == getUserAvailability(in.photographer_email, startDateTime, endDateTime)
      rows == OperatingRows(in.booking_date)
      openMinutes == timeToMinutes(FirstRow(rows).open_time)
      closeMinutes == timeToMinutes(FirstRow(rows).close_time)
      adjustedStart ==
        IF LocalMinutes(startDateTime) < openMinutes
        THEN SetHours(startDateTime, openMinutes) ELSE startDateTime
      original == {e \in calendar : e.owner = in.photographer_email /\ e.id = in.eventId}
      req == [Started(r, RouteBookingUpdate, in) EXCEPT
                !.photographer = in.photographer_email, !.travelBuffer = travelBuffer,
                !.startDateTime = startDateTime, !.endDateTime = endDateTime]
               @@ [target |-> original]
      checked == [req EXCEPT !.fetched = events]
      rejected ==
        IF in.customer_name = NoValue THEN 400
        ELSE IF graphError THEN 500
        ELSE IF UpdateConflict(events, in.eventId, startDateTime, endDateTime) THEN 409
        ELSE IF rows = {} THEN 400
        ELSE IF in.start_time < openMinutes \/ EndTime(in) > closeMinutes THEN 400
        ELSE IF in.booking_date \in holidays THEN 400
        ELSE 0
      bookingData == [checked EXCEPT !.startDateTime = adjustedStart]
      cache1 == CacheAfterTravelTime(cache, BookingAddress,
                                     ParseLocal(Wall(in.booking_date, in.start_time)))
      legacy == fail # "get" /\ original # {} /\ \A e \in original : isLegacyEvent(e)
      failing == FailingStep(fail)
      \* the three events of the legacy branch, by their step in WriteOrder
      cacheAt(step) ==
        IF step = 1 THEN cache1
        ELSE CacheAfterBuffer(cache1, BookingAddress, bookingData.startDateTime)
      created(step) ==
        CreatedEvent(in.photographer_email,
                     EventDetails(cacheAt(step), [bookingData EXCEPT !.step = step]),
                     EventId(r, step))
      afterLegacy ==
        (IF failing > 1 THEN calendar \ original ELSE calendar)
          \cup {created(step) : step \in {k \in 1 .. Len(WriteOrder) : k + 1 < failing}}
      cacheAfterLegacy ==
        IF failing >= 4
        THEN CacheAfterBuffer(cacheAt(2), BookingAddress, bookingData.endDateTime)
        ELSE IF failing >= 2 THEN cacheAt(2)
        ELSE cache1
      recreated == legacy /\ failing > Len(LegacyOrder)
      \* the plain update, reached by a plain event or from the catch block
      before == IF legacy THEN afterLegacy ELSE calendar
      present == \E e \in before : e.owner = in.photographer_email /\ e.id = in.eventId
      updated == present /\ fail # "update"
      log ==
        <<[kind |-> "get",
           phase |-> IF fail # "get" /\ original # {} THEN "completed" ELSE "failed"]>>
          \o (IF legacy THEN LegacyLog(failing) ELSE <<>>)
          \o (IF recreated THEN <<>>
              ELSE <<[kind |-> "update", phase |-> IF updated THEN "completed" ELSE "failed"]>>)
  IN  /\ reqs[r].pc = "idle"
      /\ travelTimeCache' =
           IF in.customer_name = NoValue THEN cache
           ELSE IF rejected = 0 /\ legacy THEN cacheAfterLegacy
           ELSE cache1
      /\ reqs' = [reqs EXCEPT ![r] =
           CASE in.customer_name = NoValue -> Answered(req, 400, "Missing required fields")
             [] rejected = 500 -> Answered(req, 500, "Server error")
             [] rejected = 409 ->
                  Answered(checked, 409,
                           "Time slot is no longer available for the selected photographer")
             [] rejected = 400 /\ in.booking_date \in holidays /\ rows # {}
                  /\ ~(in.start_time < openMinutes \/ EndTime(in) > closeMinutes) ->
                  Answered(checked, 400, "Booking is on a holiday")
             [] rejected = 400 -> Answered(checked, 400, "Booking is outside of operating hours")
             [] recreated \/ updated -> Answered(bookingData, 200, NoValue)
             [] OTHER -> Answered(bookingData, 500, "Failed to update calendar event")]
      /\ calendar' =
           IF rejected # 0 THEN calendar
           ELSE IF updated
           THEN updateCalendarEvent(before, in.photographer_email, in.eventId,
                                    formatClientCalendarEvent(bookingData))
           ELSE before
      /\ writeLog' = [writeLog EXCEPT ![r] = IF rejected # 0 THEN @ ELSE @ \o log]
      /\ UNCHANGED <<tz, now, holidays, operatingHours, traffic, bookings,
                     lastList, mapsCalls>>

\* the showAs values the calendar provider reports
ShowAsValues == {"free", "workingElsewhere", "busy"}

\* calendars with an event of one showAs value over 10:00-11:00 for each
\* photographer, or a free event followed by a busy one for the primary photographer
ShowAsCalendars ==
  {{External(1, photographers[1], 2, 10 * 60, 11 * 60, s),
    External(3, photographers[2], 2, 10 * 60, 11 * 60, s)} : s \in ShowAsValues}
    \cup {{External(1, photographers[1], 2, 10 * 60, 11 * 60, "free"),
            External(2, photographers[1], 2, 12 * 60, 13 * 60, "busy")}}

NoFailure == [dbError |-> "none", graphError |-> {}]

InitShowAs ==
  /\ tz \in TzChoices
  /\ now = BusinessTime(1, 9, 0)
  /\ holidays = {}
  /\ operatingHours = AllOpen
  /\ calendar \in ShowAsCalendars
  /\ traffic = "calm"
  /\ travelTimeCache = {}
  /\ bookings = {}
  /\ reqs = [r \in ReqIds |-> IdleReq]
  /\ writeLog = [r \in ReqIds |-> <<>>]
  /\ lastList = NoList
  /\ mapsCalls = [c \in CallIds |-> IdleCall]

NextShowAs ==
  \/ \E q \in Queries, date \in BookingDates :
       lastList.n < MaxLists /\ ListSlots(q, date, NoFailure)
  \/ \E in \in {i \in Inputs : i.customer_name = "ann"}, graphError \in BOOLEAN :
       BookingCheck(1, in, graphError)
  \/ \E r \in ReqIds : IssueWrite(r)
  \/ \E r \in ReqIds, ok \in BOOLEAN : CompleteWrite(r, ok)
  \/ \E in \in UpdateInputs, graphError \in BOOLEAN, fail \in {"none", "update"} :
       BookingUpdate(MaxReqs, in, graphError, fail)

\* an event booked before the three-event model, and one booked after it
LegacyBooking(id, owner, date, from, to) ==
  [id |-> id, owner |-> owner, start |-> Wall(date, from) + tz, end |-> Wall(date, to) + tz,
   showAs |-> "busy", subject |-> LegacySubject, location |-> BookingAddress]
SessionBooking(id, owner, date, from, to) ==
  [id |-> id, owner |-> owner, start |-> Wall(date, from) + tz, end |-> Wall(date, to) + tz,
   showAs |-> "busy", subject |-> "Session", location |-> BookingAddress]

UpdateCalendars ==
  { {LegacyBooking(1, photographers[1], 2, 10 * 60, 11 * 60),
     SessionBooking(2, photographers[1], 2, 12 * 60, 13 * 60)} }

InitUpdate ==
  /\ tz \in TzChoices
  /\ now = BusinessTime(1, 9, 0)
  /\ holidays = {}
  /\ operatingHours = AllOpen
  /\ calendar \in UpdateCalendars
  /\ traffic = "calm"
  /\ travelTimeCache = {}
  /\ bookings = {}
  /\ reqs = [r \in ReqIds |-> IdleReq]
  /\ writeLog = [r \in ReqIds |-> <<>>]
  /\ lastList = NoList
  /\ mapsCalls = [c \in CallIds |-> IdleCall]

NextUpdate ==
  \E r \in ReqIds, in \in UpdateInputs, graphError \in BOOLEAN, fail \in UpdateFailures :
    BookingUpdate(r, in, graphError, fail)

\* PUT /api/bookings/:id over a calendar with a legacy event and a plain one
SpecUpdate == InitUpdate /\ [][NextUpdate]_vars

\* one listing, one POST /api/bookings and one PUT /api/bookings/:id over a
\* calendar with an event of some showAs value
SpecShowAs == InitShowAs /\ [][NextShowAs]_vars

\* routes/bookings.js: DELETE /api/bookings/:id, the cancellation of a booking

RouteBookingDelete == "DELETE /api/bookings/:id"

\* the ids and photographers a cancellation may name
DeleteInputs ==
  [id : {NoEvent} \cup {EventId(1, step) : step \in 1 .. Len(WriteOrder)},
   photographer_email : {NoValue, "eve"} \cup PhotographerSet]

\* the calendar after deleteCalendarEvent succeeds
deleteCalendarEvent(events, userEmail, eventId) ==
  {e \in events : ~(e.owner = userEmail /\ e.id = eventId)}

\* the whole handler: validation, the deletion of the one event the path
\* names, the response.  The event is read first only to fill the
\* cancellation e-mail, and a failure of that read is swallowed.  fail says
\* that deleteCalendarEvent throws; it also throws for an event the calendar
\* does not hold.
BookingDelete(r, in, fail) ==
  LET req == Started(r, RouteBookingDelete, in)
      held == \E e \in calendar : e.owner = in.photographer_email /\ e.id = in.id
  IN  /\ reqs[r].pc = "idle"
      /\ reqs' = [reqs EXCEPT ![r] =
           IF in.id = NoEvent \/ in.photographer_email = NoValue
           THEN Answered(req, 400, "Missing event ID or photographer email")
           ELSE IF in.photographer_email \notin PhotographerSet
           THEN Answered(req, 400, "Invalid photographer email")
           ELSE IF fail \/ ~held
           THEN Answered(req, 500, "Failed to delete calendar event")
           ELSE Answered(req, 200, NoValue)]
      /\ calendar' =
           IF /\ in.id # NoEvent
              /\ in.photographer_email \in PhotographerSet
              /\ ~fail
           THEN deleteCalendarEvent(calendar, in.photographer_email, in.id)
           ELSE calendar
      /\ UNCHANGED <<tz, now, holidays, operatingHours, traffic, travelTimeCache, bookings,
                     writeLog, lastList, mapsCalls>>

InitCancel ==
  /\ tz \in TzChoices
  /\ now = BusinessTime(1, 9, 0)
  /\ holidays = {}
  /\ operatingHours = AllOpen
  /\ calendar = {}
  /\ traffic = "calm"
  /\ travelTimeCache = {}
  /\ bookings = {}
  /\ reqs = [r \in ReqIds |-> IdleReq]
  /\ writeLog = [r \in ReqIds |-> <<>>]
  /\ lastList = NoList
  /\ mapsCalls = [c \in CallIds |-> IdleCall]

NextCancel ==
  \/ \E in \in Inputs, graphError \in BOOLEAN : BookingCheck(1, in, graphError)
  \/ \E in \in Inputs : MsBookingBegin(1, in)
  \/ \E graphError \in BOOLEAN : MsBookingSelect(1, graphError)
  \/ IssueWrite(1)
  \/ \E ok \in BOOLEAN : CompleteWrite(1, ok)
  \/ \E in \in DeleteInputs, fail \in BOOLEAN : BookingDelete(MaxReqs, in, fail)
  \/ \E id \in ReqIds : MsBookingDelete(id)

\* one booking of either route, and its cancellation
SpecCancel == InitCancel /\ [][NextCancel]_vars

\* booking requests for yesterday, today and tomorrow, before and at the cutoff

PolicyDates == 0 .. 2
PolicyClocks == {BusinessTime(1, 9, 0), BusinessTime(1, CutoffHour, 0)}
PolicyInputs ==
  [booking_date : PolicyDates, start_time : {9 * 60}, customer_name : {"ann"},
   photographer_email : {photographers[1]}]

InitPolicy ==
  /\ tz \in TzChoices
  /\ now \in PolicyClocks
  /\ holidays = {}
  /\ operatingHours = AllOpen
  /\ calendar = {}
  /\ traffic = "calm"
  /\ travelTimeCache = {}
  /\ bookings = {}
  /\ reqs = [r \in ReqIds |-> IdleReq]
  /\ writeLog = [r \in ReqIds |-> <<>>]
  /\ lastList = NoList
  /\ mapsCalls = [c \in CallIds |-> IdleCall]

NextPolicy ==
  \/ \E in \in PolicyInputs, graphError \in BOOLEAN : BookingCheck(1, in, graphError)
  \/ \E in \in PolicyInputs : MsBookingBegin(MaxReqs, in)
  \/ \E r \in ReqIds : IssueWrite(r)
  \/ \E r \in ReqIds, ok \in BOOLEAN : CompleteWrite(r, ok)

\* one POST /api/bookings and one POST /api/ms-bookings for a date around today
SpecPolicy == InitPolicy /\ [][NextPolicy]_vars

\* booking requests that name no photographer, over calendars where the
\* primary, or every photographer, is busy at the first start time

FallbackCalendars ==
  { {},
    {External(1, photographers[1], 2, 9 * 60, 10 * 60, "busy")},
    {External(1, photographers[1], 2, 9 * 60, 10 * 60, "busy"),
     External(2, photographers[2], 2, 9 * 60, 10 * 60, "busy")} }

FallbackInputs == {in \in Inputs : in.photographer_email = NoValue /\ in.customer_name = "ann"}

InitFallback ==
  /\ tz \in TzChoices
  /\ now = BusinessTime(1, 9, 0)
  /\ holidays = {}
  /\ operatingHours = AllOpen
  /\ calendar \in FallbackCalendars
  /\ traffic = "calm"
  /\ travelTimeCache = {}
  /\ bookings = {}
  /\ reqs = [r \in ReqIds |-> IdleReq]
  /\ writeLog = [r \in ReqIds |-> <<>>]
  /\ lastList = NoList
  /\ mapsCalls = [c \in CallIds |-> IdleCall]

NextFallback ==
  \/ \E in \in FallbackInputs, graphError \in BOOLEAN : BookingCheck(1, in, graphError)
  \/ \E in \in FallbackInputs : MsBookingBegin(1, in)
  \/ \E graphError \in BOOLEAN : MsBookingSelect(1, graphError)
  \/ IssueWrite(1)
  \/ \E ok \in BOOLEAN : CompleteWrite(1, ok)

\* one booking request of either route without a photographer
SpecFallback == InitFallback /\ [][NextFallback]_vars

\* a booking of POST /api/bookings and updates of its appointment event

MoveStartTimes == StartTimes \cup {13 * 60}
MoveInputs ==
  [booking_date : BookingDates, start_time : MoveStartTimes, customer_name : {"ann"},
   photographer_email : {photographers[1]}, eventId : {EventId(1, 2)}]

InitMove ==
  /\ tz \in TzChoices
  /\ now = BusinessTime(1, 9, 0)
  /\ holidays = {}
  /\ operatingHours = {DayRow(d) : d \in 0 .. 6}
  /\ calendar = {}
  /\ traffic = "calm"
  /\ travelTimeCache = {}
  /\ bookings = {}
  /\ reqs = [r \in ReqIds |-> IdleReq]
  /\ writeLog = [r \in ReqIds |-> <<>>]
  /\ lastList = NoList
  /\ mapsCalls = [c \in CallIds |-> IdleCall]

NextMove ==
  \/ \E in \in {i \in Inputs : i.customer_name = "ann" /\ i.photographer_email # NoValue} :
       BookingCheck(1, in, FALSE)
  \/ IssueWrite(1)
  \/ \E ok \in BOOLEAN : CompleteWrite(1, ok)
  \/ \E in \in MoveInputs, graphError \in BOOLEAN, fail \in {"none", "update"} :
       BookingUpdate(MaxReqs, in, graphError, fail)

\* one POST /api/bookings on an empty calendar of a 09:00-17:00 day, and one
\* PUT of its appointment
SpecMove == InitMove /\ [][NextMove]_vars

----------------------------------------------------------------------------
\* services/mapsService.js called directly: calculateTravelTime and
\* calculateTravelTimeBuffer as processes.  A call runs to its first await on
\* the route provider when its cache entries miss, and other calls, the clock
\* and the traffic may move before the provider answers.

MapsTraffic == {"calm", "slow", "down", "clear"}

MapsQuery(fn, address, arrivalTime) ==
  [fn |-> fn, address |-> address, arrivalTime |-> arrivalTime]
\* the calls made: with and without an arrival time, two spellings of one
\* address and another address, arrival times of date 2 within one clock hour
\* (9:00, 9:30) and in another (11:00), server-local
MapsQueries ==
  { MapsQuery("buffer", "12 Oak St", NoTime),
    MapsQuery("buffer", "12 oak st ", NoTime),
    MapsQuery("buffer", "12 Oak St", ParseLocal(Wall(2, 9 * 60))),
    MapsQuery("buffer", "12 oak st ", ParseLocal(Wall(2, 9 * 60 + 30))),
    MapsQuery("buffer", "12 Oak St", ParseLocal(Wall(2, 11 * 60))),
    MapsQuery("buffer", "9 Elm Rd", ParseLocal(Wall(2, 9 * 60))),
    MapsQuery("travel", "12 Oak St", ParseLocal(Wall(2, 9 * 60))) }

\* minutes the clock advances in one step, and the longest time a behaviour spans
ClockStep == 15
MaxElapsed == 45
MapsStart == BusinessTime(1, 9, 0)

NoData == [duration |-> NoNumber, duration_in_traffic |-> NoNumber]
NoKey == <<>>

\* the cache key a call reads and writes for its own result
OwnKey(fn, address, arrivalTime) ==
  IF fn = "buffer" THEN bufferCacheKey(address, arrivalTime)
  ELSE getCacheKey(address, arrivalTime)

\* a call up to its return from the cache, or to its await on the provider
MapsBegin(c, fn, address, arrivalTime) ==
  LET cache == travelTimeCache
      own == OwnKey(fn, address, arrivalTime)
      travelKey == getCacheKey(NormalizeAddress(address), arrivalTime)
      served == IF CacheHit(cache, own) THEN own
                ELSE IF CacheHit(cache, travelKey) THEN travelKey
                ELSE NoKey
      call == [pc |-> "lookup", fn |-> fn, address |-> address, arrivalTime |-> arrivalTime,
               at |-> now, key |-> own,
               after |-> {o \in DOMAIN mapsCalls : mapsCalls[o].pc = "done"},
               found |-> CacheHas(cache, own),
               foundAge |-> IF CacheHas(cache, own) THEN now - CacheGet(cache, own).timestamp
                            ELSE 0,
               served |-> served,
               servedAge |-> IF served = NoKey THEN 0
                             ELSE now - CacheGet(cache, served).timestamp,
               network |-> FALSE, seconds |-> NoNumber, data |-> NoData,
               buffer |-> NoNumber, returned |-> NoTime]
  IN  /\ mapsCalls[c].pc = "idle"
      /\ IF served = NoKey
         THEN /\ mapsCalls' = [mapsCalls EXCEPT ![c] = call]
              /\ UNCHANGED travelTimeCache
         ELSE IF fn = "buffer"
         THEN /\ mapsCalls' = [mapsCalls EXCEPT ![c] =
                   [call EXCEPT !.pc = "done", !.returned = now,
                                !.buffer = calculateTravelTimeBuffer(cache, address, arrivalTime)]]
              /\ travelTimeCache' = CacheAfterBuffer(cache, address, arrivalTime)
         ELSE /\ mapsCalls' = [mapsCalls EXCEPT ![c] =
                   [call EXCEPT !.pc = "done", !.returned = now,
                                !.data = calculateTravelTime(cache, address, arrivalTime)]]
              /\ travelTimeCache' = CacheAfterTravelTime(cache, address, arrivalTime)
      /\ UNCHANGED <<tz, now, holidays, operatingHours, calendar, traffic, bookings, reqs,
                     writeLog, lastList>>

\* the provider answers (or fails): the result is cached and returned
MapsComplete(c) ==
  LET call == mapsCalls[c]
      data == RouteResult(call.arrivalTime)
      travelKey == getCacheKey(NormalizeAddress(call.address), call.arrivalTime)
      withTravel == CacheSet(travelTimeCache, travelKey, data)
  IN  /\ call.pc = "lookup"
      /\ mapsCalls' = [mapsCalls EXCEPT ![c] =
           [call EXCEPT !.pc = "done", !.network = TRUE, !.returned = now,
                        !.seconds = RouteLookup(call.arrivalTime),
                        !.data = data,
                        !.buffer = IF call.fn = "buffer" THEN RoundedTravelTime(data)
                                   ELSE NoNumber]]
      /\ travelTimeCache' =
           IF call.fn = "buffer" THEN CacheSet(withTravel, call.key, RoundedTravelTime(data))
           ELSE withTravel
      /\ UNCHANGED <<tz, now, holidays, operatingHours, calendar, traffic, bookings, reqs,
                     writeLog, lastList>>

\* the clock advances
Tick ==
  /\ now + ClockStep <= MapsStart + MaxElapsed
  /\ now' = now + ClockStep
  /\ UNCHANGED <<tz, holidays, operatingHours, calendar, traffic, travelTimeCache, bookings,
                 reqs, writeLog, lastList, mapsCalls>>

\* the roads, or the provider, change
SetTraffic(t) ==
  /\ t # traffic
  /\ traffic' = t
  /\ UNCHANGED <<tz, now, holidays, operatingHours, calendar, travelTimeCache, bookings,
                 reqs, writeLog, lastList, mapsCalls>>

InitMaps ==
  /\ tz = BusinessOffset
  /\ now = MapsStart
  /\ holidays = {}
  /\ operatingHours = AllOpen
  /\ calendar = {}
  /\ traffic \in MapsTraffic
  /\ travelTimeCache = {}
  /\ bookings = {}
  /\ reqs = [r \in ReqIds |-> IdleReq]
  /\ writeLog = [r \in ReqIds |-> <<>>]
  /\ lastList = NoList
  /\ mapsCalls = [c \in CallIds |-> IdleCall]

NextMaps ==
  \/ \E c \in CallIds, q \in MapsQueries : MapsBegin(c, q.fn, q.address, q.arrivalTime)
  \/ \E c \in CallIds : MapsComplete(c)
  \/ Tick
  \/ \E t \in MapsTraffic : SetTraffic(t)

\* calls of the travel estimator sharing its cache, under a moving clock and traffic
SpecMaps == InitMaps /\ [][NextMaps]_vars

\* More calls over fewer keys: three calls that share one travel-time entry
\* and one buffer entry, so that calls meet on an expired entry
MaxCacheCalls == 3
CacheQueries ==
  { MapsQuery("buffer", "12 Oak St", ParseLocal(Wall(2, 9 * 60))),
    MapsQuery("buffer", "12 oak st ", ParseLocal(Wall(2, 9 * 60 + 30))),
    MapsQuery("travel", "12 Oak St", ParseLocal(Wall(2, 9 * 60))) }
CacheTraffic == {"calm", "slow"}

InitCache ==
  /\ tz = BusinessOffset
  /\ now = MapsStart
  /\ holidays = {}
  /\ operatingHours = AllOpen
  /\ calendar = {}
  /\ traffic \in CacheTraffic
  /\ travelTimeCache = {}
  /\ bookings = {}
  /\ reqs = [r \in ReqIds |-> IdleReq]
  /\ writeLog = [r \in ReqIds |-> <<>>]
  /\ lastList = NoList
  /\ mapsCalls = [c \in 1 .. MaxCacheCalls |-> IdleCall]

NextCache ==
  \/ \E c \in 1 .. MaxCacheCalls, q \in CacheQueries :
       MapsBegin(c, q.fn, q.address, q.arrivalTime)
  \/ \E c \in 1 .. MaxCacheCalls : MapsComplete(c)
  \/ Tick
  \/ \E t \in CacheTraffic : SetTraffic(t)

SpecCache == InitCache /\ [][NextCache]_vars

----------------------------------------------------------------------------
\* The same availability request asked again, the clock and the roads moving
\* between the two requests

\* the requests of '/' in one behaviour
MaxRepeats == 2

RepeatCalendar ==
  {External(1, photographers[1], 2, 10 * 60, 11 * 60, "tentative"),
   External(2, photographers[2], 2, 10 * 60 + 30, 12 * 60, "oof")}

InitRepeat ==
  /\ tz \in TzChoices
  /\ now = MapsStart
  /\ holidays = {}
  /\ operatingHours = AllOpen
  /\ calendar = RepeatCalendar
  /\ traffic \in TrafficStates
  /\ travelTimeCache = {}
  /\ bookings = {}
  /\ reqs = [r \in ReqIds |-> IdleReq]
  /\ writeLog = [r \in ReqIds |-> <<>>]
  /\ lastList = NoList
  /\ mapsCalls = [c \in CallIds |-> IdleCall]

NextRepeat ==
  \/ \E q \in Queries, date \in BookingDates :
       lastList.n < MaxRepeats /\ ListSlots(q, date, NoFailure)
  \/ Tick
  \/ \E t \in TrafficStates : SetTraffic(t)

\* repeated requests of '/' over fixed tables and calendars
SpecRepeat == InitRepeat /\ [][NextRepeat]_vars

\* '/' and '/dates' asked one after the other over a 09:00-17:00 day that is
\* free, or busy until 15:00 for every photographer, or busy at noon for the
\* primary photographer

AgreeCalendars ==
  { {},
    {External(1, photographers[1], 2, 9 * 60, 15 * 60, "busy"),
     External(2, photographers[2], 2, 9 * 60, 15 * 60, "busy")},
    {External(1, photographers[1], 2, 12 * 60, 13 * 60, "busy")} }

InitAgree ==
  /\ tz \in TzChoices
  /\ now = BusinessTime(1, 9, 0)
  /\ holidays = {}
  /\ operatingHours = {DayRow(d) : d \in 0 .. 6}
  /\ calendar \in AgreeCalendars
  /\ traffic \in {"calm", "rush"}
  /\ travelTimeCache = {}
  /\ bookings = {}
  /\ reqs = [r \in ReqIds |-> IdleReq]
  /\ writeLog = [r \in ReqIds |-> <<>>]
  /\ lastList = NoList
  /\ mapsCalls = [c \in CallIds |-> IdleCall]

NextAgree ==
  \/ \E q \in Queries, date \in Dates :
       lastList.n < MaxRepeats /\ ListSlots(q, date, NoFailure)
  \/ \E q \in Queries, s \in Dates, e \in Dates :
       lastList.n < MaxRepeats /\ s <= e /\ e - s <= MaxRange /\ ListDates(q, s, e, NoFailure)

SpecAgree == InitAgree /\ [][NextAgree]_vars

----------------------------------------------------------------------------
\* Properties of the availability requests

\* the minutes since midnight a formatted "h:mm AM/PM" time stands for
ClockMinutes(t) == ((t.h % 12) + (IF t.period = "PM" THEN 12 ELSE 0)) * 60 + t.m

\* the instant of a server-local wall-clock minute of a date
InstantOf(date, minutes) == Wall(date, minutes) + tz

\* the travel buffer the last request used (its lookup is in the cache)
LastBuffer == RequestBuffer(travelTimeCache, lastList.query)

\* the slots of the last '/' answer, and of the last '/all-times' answer with their dates
LastSlots ==
  IF lastList.route = "/" /\ lastList.status = 200
  THEN {[date |-> lastList.start_date, start_time |-> lastList.body[i].start_time,
         end_time |-> lastList.body[i].end_time,
         photographer |-> lastList.body[i].photographer] : i \in DOMAIN lastList.body}
  ELSE {}
LastRangeSlots ==
  IF lastList.route = "/all-times" /\ lastList.status = 200
  THEN UNION {{[date |-> lastList.body[i].dates[j].date,
                start_time |-> lastList.body[i].time,
                end_time |-> lastList.body[i].dates[j].end_time,
                photographer |-> lastList.body[i].dates[j].photographer] :
                 j \in DOMAIN lastList.body[i].dates} : i \in DOMAIN lastList.body}
  ELSE {}

\* two half-open intervals of instants share an instant
Overlaps(s1, e1, s2, e2) == s1 < e2 /\ s2 < e1

\* C4: every slot '/' returns is free of the assigned photographer's fetched
\* busy, tentative and out-of-office events over [start - buffer, end + buffer],
\* buffer being the travel buffer of the request (0 without an address)
C4_SlotsAvoidBusy ==
  \A s \in LastSlots :
    \A e \in lastList.fetched[s.photographer] :
      e.showAs \in {"busy", "tentative", "oof"} =>
        ~Overlaps(InstantOf(s.date, ClockMinutes(s.start_time) - LastBuffer),
                  InstantOf(s.date, ClockMinutes(s.end_time) + LastBuffer),
                  e.start, e.end)

\* a '/' answer offers a slot to a photographer who has a blocking event that day,
\* for a request with a travel buffer
C4_Witness ==
  \E s \in LastSlots :
    /\ LastBuffer > 0
    /\ \E e \in lastList.fetched[s.photographer] : e.showAs \in {"busy", "tentative", "oof"}

\* C5: every slot of '/' and of '/all-times' has open <= start - buffer and
\* end + buffer <= close for the operating window of its date's weekday
C5_SlotsWithinHours ==
  \A s \in LastSlots \cup LastRangeSlots :
    \E row \in operatingHours :
      /\ row.day_of_week = s.date % 7
      /\ row.open_time <= ClockMinutes(s.start_time) - LastBuffer
      /\ ClockMinutes(s.end_time) + LastBuffer <= row.close_time

\* an '/all-times' answer offers a slot for a request with a travel buffer
C5_Witness ==
  /\ LastRangeSlots # {}
  /\ LastBuffer > 0

OfferedDates ==
  CASE lastList.route = "/" -> {s.date : s \in LastSlots}
    [] lastList.route = "/all-times" -> {s.date : s \in LastRangeSlots}
    [] lastList.route = "/dates" -> {lastList.body[i] : i \in DOMAIN lastList.body}
    [] OTHER -> {}

\* C7: no answer of '/', '/dates' or '/all-times' offers today's date or an
\* earlier one, by the server's calendar or by the business's, at any time of day
C7_NoSameDayOrPast ==
  \A d \in OfferedDates : d > LocalDate(now) /\ d > BusinessDate

\* a range that holds today is answered with other dates offered
C7_Witness ==
  /\ lastList.route \in {"/dates", "/all-times"}
  /\ lastList.start_date <= BusinessDate
  /\ lastList.end_date > BusinessDate
  /\ OfferedDates # {}

\* some candidate of the date would be offered but for the date policy
OtherwiseOffered(q, date) ==
  /\ date \notin holidays
  /\ OperatingRows(date) # {}
  /\ DateSlots(travelTimeCache, q, date, FetchDay(date), FirstRow(OperatingRows(date)), TRUE)
       # <<>>

\* C8: for tomorrow's date, on a day that would otherwise offer a candidate, '/'
\* answers an empty list exactly when the business clock is at or after 17:00
C8_TomorrowEmptyIffAfterCutoff ==
  (/\ lastList.route = "/"
   /\ lastList.start_date = BusinessDate + 1
   /\ lastList.failure = [dbError |-> "none", graphError |-> {}]
   /\ OtherwiseOffered(lastList.query, lastList.start_date)) =>
    ((lastList.body = <<>>) <=> (BusinessMinutes >= CutoffHour * 60))

----------------------------------------------------------------------------
\* Properties of the booking requests

Answered201(r) == reqs[r].pc = "done" /\ reqs[r].status = 201

\* the travel buffer of an accepted booking: the one POST /api/bookings computed,
\* or the length of the travel events POST /api/ms-bookings wrote
AcceptedBuffer(r) ==
  IF reqs[r].route = RouteBookings THEN reqs[r].travelBuffer
  ELSE calculateTravelTimeBuffer(travelTimeCache, BookingAddress, reqs[r].startDateTime)

WindowStart(r) ==
  Wall(reqs[r].input.booking_date, reqs[r].input.start_time) - AcceptedBuffer(r)
WindowEnd(r) ==
  Wall(reqs[r].input.booking_date, EndTime(reqs[r].input)) + AcceptedBuffer(r)

\* every calendar write of the request completed
AllWritten(r) ==
  /\ Len(writeLog[r]) = 2 * Len(WriteOrder)
  /\ \A k \in 1 .. Len(WriteOrder) : writeLog[r][2 * k].phase = "completed"

\* C1: no two accepted bookings of one photographer have overlapping
\* [start - travelBuffer, end + travelBuffer] windows.  Stated for the most
\* favourable executions: the server runs on UTC, every calendar write
\* succeeds, and the second request arrives after the first was answered
C1_NoOverlappingAccepted ==
  \A r1 \in ReqIds, r2 \in ReqIds :
    (/\ r1 < r2
     /\ tz = 0
     /\ Answered201(r1) /\ Answered201(r2)
     /\ AllWritten(r1) /\ AllWritten(r2)
     /\ ~reqs[r1].concurrent /\ ~reqs[r2].concurrent
     /\ reqs[r1].photographer = reqs[r2].photographer) =>
      ~Overlaps(WindowStart(r1), WindowEnd(r1), WindowStart(r2), WindowEnd(r2))

\* both requests were in flight at once
Concurrent(r1, r2) ==
  /\ reqs[r1].pc # "idle" /\ reqs[r2].pc # "idle"
  /\ reqs[r1].concurrent \/ reqs[r2].concurrent

SameSlot(r1, r2) ==
  /\ reqs[r1].input.booking_date = reqs[r2].input.booking_date
  /\ reqs[r1].input.start_time = reqs[r2].input.start_time
  /\ reqs[r1].photographer = reqs[r2].photographer

\* C2: of two concurrent POST /api/bookings calls for the same slot and
\* photographer at most one is answered 201.  Stated for a server on UTC and
\* calls whose calendar writes all succeed
C2_AtMostOneSucceeds ==
  \A r1 \in ReqIds, r2 \in ReqIds :
    (/\ r1 < r2
     /\ tz = 0
     /\ Concurrent(r1, r2)
     /\ reqs[r1].route = RouteBookings /\ reqs[r2].route = RouteBookings
     /\ SameSlot(r1, r2)) =>
      ~(/\ Answered201(r1) /\ Answered201(r2)
        /\ AllWritten(r1) /\ AllWritten(r2))

\* a fetched busy, tentative or out-of-office event overlaps the requested
\* [start_time, end_time] of the request
FetchedOverlap(r) ==
  \E e \in reqs[r].fetched :
    /\ e.showAs \in {"busy", "tentative", "oof"}
    /\ Overlaps(InstantOf(reqs[r].input.booking_date, reqs[r].input.start_time),
                InstantOf(reqs[r].input.booking_date, EndTime(reqs[r].input)),
                e.start, e.end)

\* C3: a POST /api/bookings call whose fetch returns a busy, tentative or
\* out-of-office event overlapping the requested [start_time, end_time] is
\* answered 409 and issues no calendar write
C3_ConflictRejected ==
  \A r \in ReqIds :
    (/\ reqs[r].pc # "idle"
     /\ reqs[r].route = RouteBookings
     /\ FetchedOverlap(r)) =>
      (/\ reqs[r].pc = "done" /\ reqs[r].status = 409
       /\ writeLog[r] = <<>>)

\* C9: a booking request for a holiday is not accepted and issues no calendar write
C9_HolidayRejected ==
  \A r \in ReqIds :
    (/\ reqs[r].pc # "idle"
     /\ reqs[r].input.booking_date \in holidays) =>
      (/\ reqs[r].status # 201
       /\ writeLog[r] = <<>>)

\* C10: the calendar writes of a booking request are issued in the order
\* travel-to, appointment, travel-from, each only after the one before it completed
C10_WritesInOrder ==
  \A r \in ReqIds :
    \A i \in 1 .. Len(writeLog[r]) :
      IF i % 2 = 1
      THEN /\ writeLog[r][i].phase = "issued"
           /\ writeLog[r][i].kind = <<"travelTo", "appointment", "travelFrom">>[(i + 1) \div 2]
           /\ i > 1 => writeLog[r][i - 1].phase = "completed"
      ELSE /\ writeLog[r][i].phase \in {"completed", "failed"}
           /\ writeLog[r][i].kind = writeLog[r][i - 1].kind

\* both routes have written all three events of a booking, the two requests
\* having been in flight at once
C10_Witness ==
  \E r1 \in ReqIds, r2 \in ReqIds :
    /\ Answered201(r1) /\ Answered201(r2)
    /\ reqs[r1].route = RouteBookings /\ reqs[r2].route = RouteMsBookings
    /\ Concurrent(r1, r2)
    /\ \A k \in 1 .. 3 : /\ writeLog[r1][2 * k].phase = "completed"
                         /\ writeLog[r2][2 * k].phase = "completed"

\* the write of the request's k-th event came back with an error
WriteFailed(r) ==
  \E i \in 1 .. Len(writeLog[r]) : writeLog[r][i].phase = "failed"

\* the k-th event of the request is on the photographer's calendar
EventCreated(r, k) ==
  \E e \in calendar : e.id = EventId(r, k) /\ e.owner = reqs[r].photographer

\* C11: a request one of whose calendar writes failed is still answered 201,
\* the events it created before the failure stay on the calendar, and the
\* identifiers it returns (and stores, for /api/ms-bookings) are those of the
\* events created and null for every other event
C11_BestEffortWrites ==
  \A r \in ReqIds :
    (reqs[r].pc = "done" /\ WriteFailed(r)) =>
      /\ reqs[r].status = 201
      /\ \A k \in 1 .. 3 :
           LET kind == <<"travelTo", "appointment", "travelFrom">>[k]
               completed == 2 * k <= Len(writeLog[r]) /\ writeLog[r][2 * k].phase = "completed"
           IN  /\ completed <=> EventCreated(r, k)
               /\ reqs[r].ids[kind] = IF completed THEN EventId(r, k) ELSE NoEvent
      /\ reqs[r].route = RouteMsBookings =>
           \E b \in bookings :
             /\ b.id = r
             /\ b.ms_calendar_travel_events = reqs[r].ids
             /\ b.ms_calendar_event_id = reqs[r].ids["appointment"]

\* a request of each route was answered after its travel-to event was created
\* and a later write failed
C11_Witness ==
  \E r1 \in ReqIds, r2 \in ReqIds :
    /\ reqs[r1].pc = "done" /\ reqs[r1].route = RouteBookings
    /\ reqs[r2].pc = "done" /\ reqs[r2].route = RouteMsBookings
    /\ WriteFailed(r1) /\ WriteFailed(r2)
    /\ EventCreated(r1, 1) /\ EventCreated(r2, 1) /\ EventCreated(r2, 2)

\* the persisted row of an accepted request: status confirmed, and the three
\* event identifiers the request obtained
PersistedFor(r) ==
  \E b \in bookings :
    /\ b.id = r
    /\ b.status = "confirmed"
    /\ b.ms_calendar_event_id = reqs[r].ids["appointment"]
    /\ b.ms_calendar_travel_events = reqs[r].ids

\* C12: every booking request answered 201 leaves a row in photobooking.bookings
\* with status confirmed that holds its appointment, travel-to and travel-from
\* event identifiers
C12_SuccessPersisted ==
  \A r \in ReqIds : Answered201(r) => PersistedFor(r)

\* C13: every stored booking has status confirmed or cancelled, and a stored
\* booking's status only goes from confirmed to confirmed or cancelled
C13_StatusMachine ==
  [][\A b \in bookings' :
       /\ b.status \in {"confirmed", "cancelled"}
       /\ \A a \in bookings :
            a.id = b.id => (a.status = "confirmed" \/ b.status = a.status)]_vars

\* the last answer is of a request that got to the calendar fetch with the
\* fetch of exactly one photographer failing
OneFetchFailed ==
  /\ lastList.route = "/"
  /\ Cardinality(lastList.failure.graphError) = 1
  /\ ReachesFetch(lastList.start_date, lastList.failure.dbError)

\* C14: when the calendar fetch of one photographer fails, '/' still answers
\* with the availability of the other photographers and never assigns a slot
\* to the photographer whose fetch failed
C14_PartialFetch ==
  OneFetchFailed =>
    /\ lastList.status = 200
    /\ \A i \in DOMAIN lastList.body :
         lastList.body[i].photographer \notin lastList.failure.graphError

\* the last answer is a '/' answer computed from the fetched calendars
ListedFromCalendars ==
  /\ lastList.route = "/"
  /\ lastList.status = 200
  /\ lastList.failure.graphError = {}
  /\ ReachesFetch(lastList.start_date, lastList.failure.dbError)

\* the operating window, the total duration and the appointment length of the last request
LastRow == FirstRow(OperatingRows(lastList.start_date))
LastDuration == RequestDuration(travelTimeCache, lastList.query)
LastAppointment == LastDuration - 2 * LastBuffer

\* the candidate starts of a request: every 30 minutes from open + buffer while
\* the appointment ends by closing time
CandidatesOf(row, buffer, appointment) ==
  {m \in {row.open_time + buffer + 30 * k : k \in 0 .. 47} :
     m + appointment <= row.close_time}

\* the photographers that pass the hours check and the busy check for a candidate
Passing(m, row, buffer, appointment) ==
  {email \in PhotographerSet :
     /\ row.open_time <= m - buffer
     /\ m + appointment + buffer <= row.close_time
     /\ \A e \in lastList.fetched[email] :
          e.showAs \in {"busy", "tentative", "oof"} =>
            ~Overlaps(InstantOf(lastList.start_date, m - buffer),
                      InstantOf(lastList.start_date, m + appointment + buffer),
                      e.start, e.end)}

\* the first photographer of the configured list that is in a set
FirstOf(set) ==
  photographers[CHOOSE i \in 1 .. Len(photographers) :
                  /\ photographers[i] \in set
                  /\ \A j \in 1 .. i - 1 : photographers[j] \notin set]

\* the slots the last answer offers at a candidate start
OfferedAt(m) ==
  {i \in DOMAIN lastList.body : ClockMinutes(lastList.body[i].start_time) = m}

\* every offered slot is a candidate with a passing photographer, assigned to the
\* primary photographer when that one passes and else to the first passing one
AssignedAsConfigured(row, buffer, appointment) ==
  \A i \in DOMAIN lastList.body :
    LET m == ClockMinutes(lastList.body[i].start_time)
        passing == Passing(m, row, buffer, appointment)
    IN  /\ m \in CandidatesOf(row, buffer, appointment)
        /\ passing # {}
        /\ lastList.body[i].photographer = FirstOf(passing)
        /\ lastList.body[i].is_primary = (photographers[1] \in passing)

\* the candidate was dropped because the duration recomputed for its start time
\* passes closing time
DroppedByRecalculation(m, row, duration) ==
  SkippedByRecalculation(travelTimeCache, lastList.query, lastList.start_date, m,
                         duration, row.close_time)

\* C19 as stated: a candidate is offered exactly when at least one photographer
\* passes the checks, and is assigned to the primary photographer when that one
\* passes, else to the first passing photographer in configured order
C19_OfferedIffSomePasses ==
  ListedFromCalendars =>
    LET row == LastRow
        buffer == LastBuffer
        appointment == LastAppointment
    IN  /\ AssignedAsConfigured(row, buffer, appointment)
        /\ \A m \in CandidatesOf(row, buffer, appointment) :
             Passing(m, row, buffer, appointment) # {} => OfferedAt(m) # {}

\* C19, amended: the same for the candidates that the time-specific duration
\* recalculation does not drop
C19_OfferedIffSomePassesUnlessDropped ==
  ListedFromCalendars =>
    LET row == LastRow
        buffer == LastBuffer
        duration == LastDuration
        appointment == duration - 2 * buffer
    IN  /\ AssignedAsConfigured(row, buffer, appointment)
        /\ \A m \in CandidatesOf(row, buffer, appointment) :
             (OfferedAt(m) = {} /\ Passing(m, row, buffer, appointment) # {})
               => DroppedByRecalculation(m, row, duration)

\* an answer with a slot for the primary photographer, a slot for the other
\* one, and a candidate nobody passes
C19_Witness ==
  /\ ListedFromCalendars
  /\ \E i \in DOMAIN lastList.body : lastList.body[i].is_primary
  /\ \E i \in DOMAIN lastList.body :
       ~lastList.body[i].is_primary /\ lastList.body[i].photographer = photographers[2]
  /\ \E m \in CandidatesOf(LastRow, LastBuffer, LastAppointment) :
       Passing(m, LastRow, LastBuffer, LastAppointment) = {}

\* a fetched event that blocks, and one that does not
Blocks(e) == e.showAs \in {"busy", "tentative", "oof"}

\* some blocking event a photographer's fetch returned overlaps the candidate
\* with its travel buffers
BlockedAt(email, m, buffer, appointment) ==
  \E e \in lastList.fetched[email] :
    /\ Blocks(e)
    /\ Overlaps(InstantOf(lastList.start_date, m - buffer),
                InstantOf(lastList.start_date, m + appointment + buffer),
                e.start, e.end)

\* a request of a route answered 409
Answered409(r, route) ==
  reqs[r].pc = "done" /\ reqs[r].route = route /\ reqs[r].status = 409

\* C20: events that are free, or of any showAs other than busy, tentative and
\* oof, block nothing: a listed candidate inside the hours that is not offered
\* has a blocking event in every photographer's way, a slot given to another
\* photographer has one in the primary photographer's way, and a 409 of
\* POST /api/bookings or PUT /api/bookings/:id has a blocking event among the
\* fetched ones (other than the event under update)
C20_FreeNeverBlocks ==
  /\ ListedFromCalendars =>
       LET row == LastRow
           buffer == LastBuffer
           duration == LastDuration
           appointment == duration - 2 * buffer
       IN  /\ \A m \in CandidatesOf(row, buffer, appointment) :
                (/\ OfferedAt(m) = {}
                 /\ m + appointment + buffer <= row.close_time
                 /\ ~DroppedByRecalculation(m, row, duration))
                  => \A email \in PhotographerSet : BlockedAt(email, m, buffer, appointment)
           /\ \A i \in DOMAIN lastList.body :
                ~lastList.body[i].is_primary =>
                  BlockedAt(photographers[1], ClockMinutes(lastList.body[i].start_time),
                            buffer, appointment)
  /\ \A r \in ReqIds :
       /\ Answered409(r, RouteBookings) => \E e \in reqs[r].fetched : Blocks(e)
       /\ Answered409(r, RouteBookingUpdate) =>
            \E e \in reqs[r].fetched : Blocks(e) /\ e.id # reqs[r].input.eventId

\* over one calendar, a slot of the primary photographer is offered across a
\* non-blocking event, a POST /api/bookings passes its conflict check and a
\* PUT /api/bookings/:id succeeds, each having fetched a non-blocking event
C20_Witness ==
  /\ ListedFromCalendars
  /\ \E i \in DOMAIN lastList.body :
       /\ lastList.body[i].is_primary
       /\ \E e \in lastList.fetched[photographers[1]] :
            /\ ~Blocks(e)
            /\ Overlaps(InstantOf(lastList.start_date, ClockMinutes(lastList.body[i].start_time)),
                        InstantOf(lastList.start_date, ClockMinutes(lastList.body[i].end_time)),
                        e.start, e.end)
  /\ \E r \in ReqIds :
       /\ reqs[r].pc \in {"write", "done"}
       /\ reqs[r].route = RouteBookings
       /\ reqs[r].status \in {0, 201}
       /\ \E e \in reqs[r].fetched : ~Blocks(e)
  /\ \E r \in ReqIds :
       /\ reqs[r].pc = "done"
       /\ reqs[r].route = RouteBookingUpdate
       /\ reqs[r].status = 200
       /\ \E e \in reqs[r].fetched : ~Blocks(e)

\* the weekday of a date has no operating-hours row that is active
NoActiveRow(date) ==
  ~\E r \in operatingHours : r.day_of_week = date % 7 /\ r.is_active

\* C21: a date whose weekday has no operating-hours row, or only an inactive
\* one, gets no slot from '/' and is in no answer of '/dates'
C21_ClosedDayYieldsNothing ==
  /\ (lastList.route = "/" /\ NoActiveRow(lastList.start_date)) => lastList.body = <<>>
  /\ lastList.route = "/dates" =>
       \A i \in DOMAIN lastList.body : ~NoActiveRow(lastList.body[i])

\* a '/dates' answer over a range that holds an open day, which is offered, and
\* a day whose only row is inactive
C21_Witness ==
  /\ lastList.route = "/dates"
  /\ lastList.status = 200
  /\ lastList.body # <<>>
  /\ \E d \in lastList.start_date .. lastList.end_date :
       /\ NoActiveRow(d)
       /\ \E r \in operatingHours : r.day_of_week = d % 7 /\ ~r.is_active

\* the last answer lists a 09:00-17:00 day for a request of 2500 square feet
\* with the given address
ListedDay(address) ==
  /\ ListedFromCalendars
  /\ LastRow.open_time = 9 * 60 /\ LastRow.close_time = 17 * 60
  /\ lastList.query.square_footage = 2500
  /\ lastList.query.property_price = NoNumber
  /\ lastList.query.property_address = address

\* every photographer's fetched calendar is empty
AllFree == \A email \in PhotographerSet : lastList.fetched[email] = {}

\* the start and the end of the i-th slot of the last answer, in minutes of the day
StartOf(i) == ClockMinutes(lastList.body[i].start_time)
EndOf(i) == ClockMinutes(lastList.body[i].end_time)

\* the answer runs 09:00-10:00, 09:30-10:30, ... up to 16:00-17:00
HalfHourlyFromNineToFive ==
  /\ lastList.body # <<>>
  /\ StartOf(1) = 9 * 60 /\ EndOf(1) = 10 * 60
  /\ StartOf(Len(lastList.body)) = 16 * 60 /\ EndOf(Len(lastList.body)) = 17 * 60
  /\ \A i \in DOMAIN lastList.body :
       /\ EndOf(i) = StartOf(i) + 60
       /\ i > 1 => StartOf(i) = StartOf(i - 1) + 30

\* C22 as stated: on a free 09:00-17:00 day, 2500 square feet and no address
\* give slots from 09:00-10:00 to 16:00-17:00 every 30 minutes, 17 in total
C22_SeventeenSlots ==
  (ListedDay(NoValue) /\ AllFree) =>
    (HalfHourlyFromNineToFive /\ Len(lastList.body) = 17)

\* C22, amended: the same slots, which are 15 in total
C22_FifteenSlots ==
  (ListedDay(NoValue) /\ AllFree) =>
    (HalfHourlyFromNineToFive /\ Len(lastList.body) = 15)

\* the free day was listed for 2500 square feet and no address
C22_Witness ==
  ListedDay(NoValue) /\ AllFree /\ lastList.body # <<>>

\* every photographer's fetched calendar holds a busy event over 12:00-13:00
\* of the listed date and nothing else
BusyNoonHour ==
  \A email \in PhotographerSet :
    /\ lastList.fetched[email] # {}
    /\ \A e \in lastList.fetched[email] :
         /\ e.showAs = "busy"
         /\ e.start = InstantOf(lastList.start_date, 12 * 60)
         /\ e.end = InstantOf(lastList.start_date, 13 * 60)

\* C23: with 60-minute slots and the busy hour 12:00-13:00, the candidates of
\* 11:30, 12:00 and 12:30 are not offered and every other candidate from 09:00
\* to 16:00 is, 11:00-12:00 and 13:00-14:00 among them
C23_HalfOpenOverlap ==
  (ListedDay(NoValue) /\ BusyNoonHour) =>
    \A k \in 0 .. 14 :
      LET m == 9 * 60 + 30 * k
      IN  (\E i \in DOMAIN lastList.body : StartOf(i) = m /\ EndOf(i) = m + 60)
            <=> m \notin {11 * 60 + 30, 12 * 60, 12 * 60 + 30}

\* the busy noon hour was fetched and the slots that touch it are offered
C23_Witness ==
  /\ ListedDay(NoValue) /\ BusyNoonHour
  /\ \E i \in DOMAIN lastList.body : StartOf(i) = 11 * 60
  /\ \E i \in DOMAIN lastList.body : StartOf(i) = 13 * 60

\* the listed request had an address 20 minutes away at every hour
TwentyMinutesAway ==
  /\ ListedDay("12 Oak St") /\ AllFree
  /\ traffic = "calm"
  /\ CalmSeconds \div 60 = 20

\* C24 as stated: buffer 30, total 120, first slot 09:30-10:00
C24_FirstSlotHalfHour ==
  TwentyMinutesAway =>
    /\ LastBuffer = 30
    /\ LastDuration = 120
    /\ lastList.body # <<>>
    /\ StartOf(1) = 9 * 60 + 30 /\ EndOf(1) = 10 * 60

\* C24, amended: buffer 30, total 120, first slot 09:30-10:30, whose travel
\* wings span 09:00-11:00
C24_FirstSlotWholeHour ==
  TwentyMinutesAway =>
    /\ LastBuffer = 30
    /\ LastDuration = 120
    /\ lastList.body # <<>>
    /\ StartOf(1) = 9 * 60 + 30 /\ EndOf(1) = 10 * 60 + 30
    /\ StartOf(1) - LastBuffer = 9 * 60 /\ EndOf(1) + LastBuffer = 11 * 60

\* the free day was listed for the address 20 minutes away
C24_Witness ==
  TwentyMinutesAway /\ lastList.body # <<>>

\* the base minutes and the price surcharge the duration policy prescribes
PolicyBase(sqft) ==
  IF sqft = NaN THEN 120 ELSE IF sqft < 3000 THEN 60 ELSE IF sqft <= 3999 THEN 90 ELSE 120
PolicySurcharge(price) ==
  IF price \in {NoNumber, NaN} THEN 0
  ELSE IF price >= 5000000 THEN 60
  ELSE IF price >= 1000000 THEN 30
  ELSE 0

\* C25: a quote is base + surcharge + 2 x buffer, the travel term being 0
\* without an address; and with the price and the travel of the quote, the
\* total does not decrease as the square footage grows
C25_QuoteFormula ==
  lastList.route = "quote" =>
    /\ lastList.totalMinutes =
         PolicyBase(lastList.square_footage) + PolicySurcharge(lastList.property_price)
           + 2 * lastList.travelBuffer
    /\ lastList.property_address = NoValue => lastList.travelBuffer = 0
    /\ \A s1 \in SquareFootages \ {NaN}, s2 \in SquareFootages \ {NaN} :
         s1 <= s2 =>
           calculateDurationFromSquareFootage(travelTimeCache, s1, lastList.property_price,
                                              lastList.property_address, NoTime)
             <= calculateDurationFromSquareFootage(travelTimeCache, s2, lastList.property_price,
                                                   lastList.property_address, NoTime)

\* a quote of 3000 square feet at 5,000,000 with an address: 90 + 60 + travel
C25_Witness ==
  /\ lastList.route = "quote"
  /\ lastList.square_footage = 3000
  /\ lastList.property_price = 5000000
  /\ lastList.property_address # NoValue
  /\ lastList.travelBuffer > 0
  /\ lastList.totalMinutes = 150 + 2 * lastList.travelBuffer

\* the minutes of the service_type table
ServiceTable(serviceType) ==
  IF serviceType = "standard" THEN 120 ELSE IF serviceType = "extended" THEN 180 ELSE 60

\* the last answer lists a date for a request with a service type and no
\* square footage
ListedByServiceType ==
  /\ ListedFromCalendars
  /\ lastList.query.square_footage = NoNumber
  /\ lastList.query.service_type # NoValue

\* C26: without square footage the total duration is the service_type table
\* value plus 2 x buffer, so that every offered slot is as long as the table value
C26_ServiceTypeDuration ==
  ListedByServiceType =>
    /\ LastDuration = ServiceTable(lastList.query.service_type) + 2 * LastBuffer
    /\ \A i \in DOMAIN lastList.body :
         EndOf(i) - StartOf(i) = ServiceTable(lastList.query.service_type)

\* the last two answers are answers of '/' to the same request at the same
\* clock reading (tables and calendars never change between them)
AskedTwice ==
  /\ lastList.n >= 2
  /\ lastList.route = "/" /\ lastList.previous.route = "/"
  /\ lastList.query = lastList.previous.query
  /\ lastList.start_date = lastList.previous.start_date
  /\ lastList.failure = lastList.previous.failure
  /\ lastList.at = lastList.previous.at

\* C27: the same request of '/' asked twice with nothing changed in between
\* gets the same answer, also when the first request filled the travel cache
\* and the roads changed after it
C27_Idempotent ==
  AskedTwice =>
    /\ lastList.status = lastList.previous.status
    /\ lastList.body = lastList.previous.body

\* a request with an address was asked twice and offered slots, and the cached
\* travel time it was answered from is no longer what the provider would say
C27_Witness ==
  /\ AskedTwice
  /\ lastList.query.property_address # NoValue
  /\ lastList.body # <<>>
  /\ \E e \in travelTimeCache :
       /\ e.key = getCacheKey(lastList.query.property_address, NoTime)
       /\ e.data # RouteResult(NoTime)

\* a PUT /api/bookings/:id that got as far as its calendar calls
Updating(r) ==
  /\ reqs[r].pc = "done"
  /\ reqs[r].route = RouteBookingUpdate
  /\ writeLog[r] # <<>>

\* the kinds of the calendar calls a request made after its conflict check, in
\* order, and of those that succeeded
CallKinds(r) == [k \in DOMAIN writeLog[r] |-> writeLog[r][k].kind]
Succeeded(r, kind) ==
  \E k \in DOMAIN writeLog[r] : writeLog[r][k].kind = kind /\ writeLog[r][k].phase = "completed"

\* the event under update carried the legacy marker when the request arrived
OnLegacy(r) == \E e \in reqs[r].target : e.subject = "Session + Travel (both ways)"
OnPlain(r) == reqs[r].target # {} /\ ~OnLegacy(r)

\* C28: an update of a legacy event deletes it and then creates travel-to,
\* appointment and travel-from, and never patches it; an update of a plain
\* event patches it and deletes and creates nothing
C28_LegacyRecreated ==
  \A r \in ReqIds :
    Updating(r) =>
      /\ OnLegacy(r) =>
           /\ CallKinds(r) = <<"get", "delete", "travelTo", "appointment", "travelFrom">>
           /\ \A kind \in {"delete", "travelTo", "appointment", "travelFrom"} :
                Succeeded(r, kind)
      /\ OnPlain(r) => CallKinds(r) = <<"get", "update">>

\* a DELETE /api/bookings/:id of the booking's appointment answered 200
CancelledByDelete(r) ==
  \E d \in ReqIds :
    /\ reqs[d].pc = "done"
    /\ reqs[d].route = RouteBookingDelete
    /\ reqs[d].status = 200
    /\ reqs[d].input.id = reqs[r].ids["appointment"]
    /\ reqs[d].input.photographer_email = reqs[r].photographer

\* a DELETE /api/ms-bookings/:id removed the row of the booking
CancelledRow(r) ==
  /\ reqs[r].route = RouteMsBookings
  /\ ~\E b \in bookings : b.id = r

\* the events of the booking the calendar still holds
RemainingEvents(r) ==
  {e \in calendar : \E kind \in DOMAIN reqs[r].ids : e.id = reqs[r].ids[kind]}

\* C29: after a successful cancellation of a booking that was created with
\* its three events, none of the appointment, the travel to it and the travel
\* from it remains on the photographer's calendar.
C29_CancelRemovesAllEvents ==
  \A r \in ReqIds :
    (/\ Answered201(r)
     /\ AllWritten(r)
     /\ (CancelledByDelete(r) \/ CancelledRow(r)))
    => RemainingEvents(r) = {}


\* the date policy in the business's time zone: before today, today, or
\* tomorrow once the business clock shows 17:00
NotBookableByDate(date) ==
  \/ date < BusinessDate
  \/ date = BusinessDate
  \/ (date = BusinessDate + 1 /\ BusinessMinutes >= CutoffHour * 60)

\* C30: no booking request is accepted for a date before today, for today,
\* or for tomorrow when the business-local time is at or after 17:00.
C30_NotBookableNeverAccepted ==
  \A r \in ReqIds :
    Answered201(r) => ~NotBookableByDate(reqs[r].input.booking_date)

\* the photographer has no blocking event, other than the request's own, that
\* shares an instant with the requested [start, end]
FreeFor(p, r) ==
  ~\E e \in calendar :
     /\ e.owner = p
     /\ \A kind \in DOMAIN reqs[r].ids : e.id # reqs[r].ids[kind]
     /\ IsBlocking(e)
     /\ Overlaps(e.start, e.end,
                 InstantOf(reqs[r].input.booking_date, reqs[r].input.start_time),
                 InstantOf(reqs[r].input.booking_date, EndTime(reqs[r].input)))

FreePhotographers(r) == {p \in PhotographerSet : FreeFor(p, r)}

\* a POST without photographer_email got its response
AnsweredUnnamed(r) ==
  /\ reqs[r].pc = "done"
  /\ reqs[r].route \in {RouteBookings, RouteMsBookings}
  /\ reqs[r].input.photographer_email = NoValue

\* C31: a booking request without a photographer books the first free
\* photographer in configured order, the primary first, and is answered with a
\* conflict only when no configured photographer is free.
C31_FallbackToFreePhotographer ==
  \A r \in ReqIds :
    AnsweredUnnamed(r) =>
      /\ reqs[r].status = 201 =>
           /\ FreePhotographers(r) # {}
           /\ reqs[r].photographer = FirstOf(FreePhotographers(r))
      /\ reqs[r].status = 409 => FreePhotographers(r) = {}

\* the place of a fetched event, as the photographer's calendar holds it
PlaceOf(e) ==
  LET held == {c \in calendar : c.id = e.id}
  IN  IF held = {} THEN NoValue ELSE LocationOf(CHOOSE c \in held : TRUE)

\* the fetched blocking events, away from the office, of the photographer of a slot
AwayEvents(s) ==
  {e \in lastList.fetched[s.photographer] :
     IsBlocking(e) /\ PlaceOf(e) # NoValue /\ PlaceOf(e) # officeLocation}

\* the away event that ends last before the instant, and the one that starts
\* first after it
NearestBefore(s, t) ==
  {e \in AwayEvents(s) : e.end <= t /\ \A f \in AwayEvents(s) : f.end <= t => f.end <= e.end}
NearestAfter(s, t) ==
  {e \in AwayEvents(s) : e.start >= t /\ \A f \in AwayEvents(s) : f.start >= t => f.start >= e.start}

\* C32: with an address, no offered slot leaves less than the travel buffer
\* looked up for the slot's own time between itself and the photographer's
\* nearest preceding or following busy event at a place other than the office.
C32_AdjacentGapEnforced ==
  \A s \in LastSlots :
    lastList.query.property_address # NoValue =>
      LET address == lastList.query.property_address
          slotStartDate == InstantOf(s.date, ClockMinutes(s.start_time))
          slotEndDate == InstantOf(s.date, ClockMinutes(s.end_time))
      IN  /\ \A e \in NearestBefore(s, slotStartDate) :
               slotStartDate - e.end
                 >= calculateTravelTimeBuffer(travelTimeCache, address, slotStartDate)
          /\ \A e \in NearestAfter(s, slotEndDate) :
               e.start - slotEndDate
                 >= calculateTravelTimeBuffer(travelTimeCache, address, slotEndDate)

\* the total duration quoted for the start time of the i-th slot of the last answer
DurationAt(i) ==
  TimeSpecificDuration(travelTimeCache, lastList.query, lastList.start_date, StartOf(i))

\* the last request asked for a recalculation per start time
Recalculated ==
  /\ ListedFromCalendars
  /\ lastList.query.square_footage \notin {NoNumber, NaN}
  /\ lastList.query.property_address # NoValue

\* the quote for the start time of the i-th slot is at least 30 minutes off the base quote
MaterialDelta(i) == Abs(DurationAt(i) - LastDuration) >= 30

\* C33: a slot whose time-specific duration is at least 30 minutes off the
\* base quote is returned with the end time start + time-specific duration;
\* every other slot keeps the end time of the base quote.
C33_EndRecomputedPerCandidate ==
  Recalculated =>
    \A i \in DOMAIN lastList.body :
      IF MaterialDelta(i)
      THEN EndOf(i) = StartOf(i) + DurationAt(i)
      ELSE EndOf(i) = StartOf(i) + LastAppointment

\* the last two answers are a '/' answer and a '/dates' answer to the same
\* duration inputs at the same clock reading
SlotsAndDates ==
  /\ lastList.n >= 2
  /\ {lastList.route, lastList.previous.route} = {"/", "/dates"}
  /\ lastList.query = lastList.previous.query
  /\ lastList.at = lastList.previous.at
  /\ lastList.status = 200 /\ lastList.previous.status = 200

SlotsAnswer == IF lastList.route = "/" THEN lastList ELSE lastList.previous
DatesAnswer == IF lastList.route = "/dates" THEN lastList ELSE lastList.previous

\* the date of the '/' answer lies in the range of the '/dates' answer
DateInRange ==
  /\ DatesAnswer.start_date <= SlotsAnswer.start_date
  /\ SlotsAnswer.start_date <= DatesAnswer.end_date

DateListed == \E i \in DOMAIN DatesAnswer.body : DatesAnswer.body[i] = SlotsAnswer.start_date

\* C34: for the same duration inputs, calendars and clock, a date of the
\* range is listed by '/dates' exactly if '/' returns a slot for it.
C34_DatesAgreeWithSlots ==
  (SlotsAndDates /\ DateInRange) => (DateListed <=> SlotsAnswer.body # <<>>)

\* the event of one kind of a booking, as the calendar holds it
EventsOf(r, kind) == {e \in calendar : e.id = reqs[r].ids[kind]}

\* C35: the travel-to event of a three-event booking ends exactly at the start
\* of its appointment event and the travel-from event starts exactly at its
\* end, after the booking's creation and after every update of it.
C35_TravelAbutsAppointment ==
  \A r \in ReqIds :
    (Answered201(r) /\ AllWritten(r)) =>
      \A a \in EventsOf(r, "appointment") :
        /\ \A t \in EventsOf(r, "travelTo") : t.end = a.start
        /\ \A f \in EventsOf(r, "travelFrom") : f.start = a.end

\* the appointment event of the booking is on the calendar over [from, to] of its date
AppointmentOver(r, from, to) ==
  \A a \in EventsOf(r, "appointment") :
    /\ a.start = InstantOf(reqs[r].input.booking_date, from)
    /\ a.end = InstantOf(reqs[r].input.booking_date, to)

\* C36: the appointment event of an accepted booking spans exactly the
\* requested start_time and end_time; the travel time is in the two travel
\* events only.
C36_AppointmentSpansRequest ==
  \A r \in ReqIds :
    Answered201(r) =>
      AppointmentOver(r, reqs[r].input.start_time, EndTime(reqs[r].input))

\* the PUT /api/bookings/:id request got its response, and names the
\* appointment event of the booking of request o, created with its three events
UpdateOf(r, o) ==
  /\ reqs[r].pc = "done"
  /\ reqs[r].route = RouteBookingUpdate
  /\ Answered201(o) /\ AllWritten(o)
  /\ reqs[r].input.eventId = reqs[o].ids["appointment"]

\* the ids of the three events of a booking
OwnIds(o) == {reqs[o].ids[kind] : kind \in DOMAIN reqs[o].ids}

\* C37: an update of a three-event booking on a calendar that holds no event
\* other than the booking's own is never answered with a conflict.
C37_OwnEventsNoConflict ==
  \A r \in ReqIds, o \in ReqIds :
    (/\ UpdateOf(r, o)
     /\ \A e \in calendar : e.id \in OwnIds(o))
    => reqs[r].status # 409

\* a PUT /api/bookings/:id of a legacy event was answered with an error, and
\* no other request changed that event
FailedLegacyUpdate(r) ==
  /\ reqs[r].pc = "done"
  /\ reqs[r].route = RouteBookingUpdate
  /\ reqs[r].status >= 400
  /\ reqs[r].target # {}
  /\ \A e \in reqs[r].target : isLegacyEvent(e)
  /\ \A o \in ReqIds \ {r} :
       reqs[o].pc = "done" => reqs[o].status # 200 \/ reqs[o].input.eventId # reqs[r].input.eventId

\* C38: after an update of a legacy event that was answered with an error the
\* original event is still on the photographer's calendar, as it was.
C38_FailedUpdateKeepsEvent ==
  \A r \in ReqIds :
    FailedLegacyUpdate(r) => reqs[r].target \subseteq calendar

\* two POST /api/ms-bookings requests with the same date, times and customer
\* were both answered with success (the clock does not leave the minute)
SubmittedTwice(r1, r2) ==
  /\ r1 # r2
  /\ reqs[r1].pc = "done" /\ reqs[r2].pc = "done"
  /\ reqs[r1].route = RouteMsBookings /\ reqs[r2].route = RouteMsBookings
  /\ reqs[r1].input.booking_date = reqs[r2].input.booking_date
  /\ reqs[r1].input.start_time = reqs[r2].input.start_time
  /\ reqs[r1].input.customer_name = reqs[r2].input.customer_name
  /\ reqs[r1].status \in {200, 201} /\ reqs[r2].status \in {200, 201}

\* the rows of the bookings table for the submission of a request
RowsFor(r) ==
  {b \in bookings : /\ b.booking_date = reqs[r].input.booking_date
                    /\ b.start_time = reqs[r].input.start_time
                    /\ b.customer_name = reqs[r].input.customer_name}

\* the calendar events a request created
WrittenBy(r) == {e \in calendar : \E step \in 1 .. Len(WriteOrder) : e.id = EventId(r, step)}

\* C39: two identical submissions to /api/ms-bookings within a minute, one
\* after the other or at the same time, leave one row and the calendar events
\* of one request; the other is answered with the existing booking.
C39_DuplicateSubmittedOnce ==
  \A r1 \in ReqIds, r2 \in ReqIds :
    SubmittedTwice(r1, r2) =>
      /\ Cardinality(RowsFor(r1)) = 1
      /\ WrittenBy(r1) = {} \/ WrittenBy(r2) = {}
      /\ reqs[r1].error = "Booking already exists" \/ reqs[r2].error = "Booking already exists"

----------------------------------------------------------------------------
\* Properties of the travel estimator

\* the calls of the behaviour
Calls == DOMAIN mapsCalls

Returned(c) == mapsCalls[c].pc = "done"
BufferCall(c) == mapsCalls[c].pc # "idle" /\ mapsCalls[c].fn = "buffer"

\* the call asked the provider and the provider failed
LookupFailed(c) ==
  Returned(c) /\ mapsCalls[c].network /\ mapsCalls[c].seconds = RouteFailure

\* the second call began after the first returned, less than 30 minutes later
SoonAfter(c1, c2) ==
  /\ mapsCalls[c2].pc # "idle"
  /\ c1 \in mapsCalls[c2].after
  /\ mapsCalls[c2].at - mapsCalls[c1].returned < 30

\* C15: a buffer query whose route lookup fails returns 30 minutes, and a
\* repeated query for the same cache key within 30 minutes returns the same
\* value without a network call
C15_FailureDefaultsTo30 ==
  /\ \A c \in Calls : (BufferCall(c) /\ LookupFailed(c)) => mapsCalls[c].buffer = 30
  /\ \A c1 \in Calls, c2 \in Calls :
       (/\ c1 # c2
        /\ BufferCall(c1) /\ BufferCall(c2)
        /\ LookupFailed(c1)
        /\ SoonAfter(c1, c2) /\ Returned(c2)
        /\ mapsCalls[c2].key = mapsCalls[c1].key) =>
         (~mapsCalls[c2].network /\ mapsCalls[c2].buffer = mapsCalls[c1].buffer)

\* minutes is seconds rounded up to a multiple of 30 minutes, and at least 30
RoundedUpMin30(minutes, seconds) ==
  /\ minutes >= 30
  /\ minutes % 30 = 0
  /\ minutes * 60 >= seconds
  /\ minutes > 30 => (minutes - 30) * 60 < seconds

\* C16: for every one-way duration the provider answers, 0 seconds included,
\* the buffer of calculateTravelTimeBuffer and the travelBuffer POST
\* /api/bookings derives from calculateTravelTime are that duration rounded up
\* to a multiple of 30 minutes and never under 30
C16_BufferRoundedUpMin30 ==
  \A c \in Calls :
    (Returned(c) /\ mapsCalls[c].network /\ mapsCalls[c].seconds # RouteFailure) =>
      IF mapsCalls[c].fn = "buffer"
      THEN RoundedUpMin30(mapsCalls[c].buffer, mapsCalls[c].seconds)
      ELSE RoundedUpMin30(BookingTravelBuffer(mapsCalls[c].data), mapsCalls[c].seconds)

\* the call found an entry under its own key that was 30 minutes old or older
FoundExpired(c) ==
  /\ mapsCalls[c].pc # "idle"
  /\ mapsCalls[c].found
  /\ mapsCalls[c].foundAge >= 30

SameAddress(a, b) ==
  \E class \in {{"12 Oak St", "12 oak st "}, {"9 Elm Rd"}} : a \in class /\ b \in class

\* both arrival times are absent, or both fall in the same server-local clock hour
SameHour(t1, t2) ==
  \/ t1 = NoTime /\ t2 = NoTime
  \/ /\ t1 # NoTime /\ t2 # NoTime
     /\ (t1 - tz) \div 60 = (t2 - tz) \div 60

SameQuery(c1, c2) ==
  /\ SameAddress(mapsCalls[c1].address, mapsCalls[c2].address)
  /\ SameHour(mapsCalls[c1].arrivalTime, mapsCalls[c2].arrivalTime)

====
